---- MODULE Spec2Model ----
(***************************************************************************)
(* geomatch: the record-linkage merge of src/src/state.rs                  *)
(* (State::find_matches, State::find_single_match) over the DataFrame of   *)
(* src/src/data_frame.rs, driven by the command loop of src/src/main.rs.   *)
(*                                                                         *)
(* Numbers.  f64 values are modelled exactly on a dyadic grid:             *)
(*   - an f64 is NaN, written <<>>, or a number, written <<v>> (F(v));     *)
(*   - a coordinate counts 1/2048 degree (F(122880) = 60 degrees); every   *)
(*     sum, difference and halving the merge performs on such values is    *)
(*     exact in f64 and in the model;                                      *)
(*   - linear() is carried with 10 fractional bits (floor(1024*sqrt(n)));  *)
(*   - haversine() and the radius count eighths of a micro-mile (the       *)
(*     default radius 0.25 is F(250000 * DistUnit)).                       *)
(* An Option is None, written <<>>, or the tuple of its content.           *)
(* Column and row indices are 0-based as in the source; TLA+ sequences are *)
(* 1-based, hence the +1 at every subscript.                               *)
(***************************************************************************)
EXTENDS Integers, Sequences, FiniteSets, TLC

VARIABLES
  data_frames,   \* State.data_frames
  match_mode,    \* State.match_mode
  radius,        \* State.radius
  exclusive,     \* State.exclusive
  pc,            \* where the command loop / find_matches stands
  cmd_result,    \* main: `result` of the last command ("Ok" or the error text)
  output,        \* find_matches: the output DataFrame
  match_mask,    \* find_matches: match_mask
  written_mask,  \* find_matches: written_mask of the current table
  col_index,     \* find_matches: col_index
  df_index,      \* find_matches: df_index
  row,           \* find_matches: row of the running loop
  result,        \* find_matches: result of the last find_single_match call
  origin,        \* history: per output row, the input rows <<table,row>> it holds
  matches_csv,   \* the file matches.csv: NoFile or [headers, records]
  pending,       \* main: the files of the command line not loaded yet
  clock,         \* fetch: the interval clock, [fired, taken] ticks
  tasks,         \* fetch: the spawned tasks, one record per submitted row
  census,        \* fetch: the spawned tasks counted by where they stand
  permits,       \* fetch: free permits of the semaphore
  waiters,       \* fetch: tasks queued on the semaphore, oldest first
  requests,      \* history: the addresses sent to the geocoder, in order
  completed,     \* history: the tasks (rows) in the order they finished
  results,       \* fetch: what join_all returned
  coords_csv     \* the <stem>_coords.csv files written, in order

\* the locals of DataFrame::fetch and the files it writes
fetch_vars == <<clock, tasks, census, permits, waiters, requests, completed,
                results, coords_csv>>

vars == <<data_frames, match_mode, radius, exclusive, pc, cmd_result, output,
          match_mask, written_mask, col_index, df_index, row, result, origin,
          matches_csv, pending, fetch_vars>>

-----------------------------------------------------------------------------
(* Bounds of the model *)

MaxTables == 2
MaxRows == 2

\* output columns registered per table, and rows per table, in SpecCols
MaxOutCols == 2
MaxColsRows == 1

\* tables, and rows per table, in SpecChain
MaxChainTables == 3
MaxChainRows == 1

\* candidate rows at the source's coordinates in SpecTie and SpecText
MaxTieRows == 2

\* rows of the file that is fetched in SpecFetch
MaxFetchRows == 3

\* rows the file fetched in SpecCount has beyond the permits of the semaphore
MaxQueued == 2

\* data_frame.rs line 424: Semaphore::new(30)
SemaphorePermits == 30

\* rows of the file fetched in SpecCount
QueueRows == SemaphorePermits + MaxQueued

-----------------------------------------------------------------------------
(* Values *)

None == <<>>

\* f64
NaN == <<>>

F(v) == <<v>>

Val(x) == x[1]

is_nan(x) == x = NaN

\* f64 `a == b`: false as soon as one side is NaN
FloatEq(a, b) == (~is_nan(a)) /\ (~is_nan(b)) /\ Val(a) = Val(b)

\* f64 `a > b`: false as soon as one side is NaN
FloatGt(a, b) == (~is_nan(a)) /\ (~is_nan(b)) /\ Val(a) > Val(b)

\* f64 `a < b`: false as soon as one side is NaN
FloatLt(a, b) == (~is_nan(a)) /\ (~is_nan(b)) /\ Val(a) < Val(b)

\* f64 `a <= b`: false as soon as one side is NaN
FloatLe(a, b) == (~is_nan(a)) /\ (~is_nan(b)) /\ Val(a) <= Val(b)

\* variant of FloatAvg with the fault: the second value is taken
FloatAvg_Second(a, b) == b

\* f64 `(a + b) * 0.5`
FloatAvg(a, b) ==
  IF is_nan(a) \/ is_nan(b) THEN NaN ELSE F((Val(a) + Val(b)) \div 2)

\* f64 to_string: the decimal text
FloatToString(a) == IF is_nan(a) THEN "NaN" ELSE ToString(Val(a))

\* 60 degrees north, in units of 1/2048 degree
LatBase == 60 * 2048

\* one grid step, 1/256 degree, in units of 1/2048 degree
GridStep == 2048 \div 256

\* the parts of a micro-mile that distances and radii are counted in
DistUnit == 8

\* State::new: radius 0.25 miles
DefaultRadius == 250000 * DistUnit

\* the file matches.csv before any merge wrote it
NoFile == [exists |-> FALSE, headers |-> <<>>, records |-> <<>>]

MatchModes == {"LEFT", "INNER", "OUTER"}

\* the points rows are placed at: a base point, its neighbour one grid step
\* east (0.13494940315999104 miles away) and its neighbour one grid step
\* north (0.269899 miles away)
Points == { <<F(LatBase), F(0)>>, <<F(LatBase), F(GridStep)>>,
            <<F(LatBase + GridStep), F(0)>> }

\* coordinates of one row: a point, or unresolved on either axis
Coords == Points \cup { <<NaN, F(0)>>, <<F(LatBase), NaN>> }

\* arguments the `radius` command is given: a radius just short of the east
\* neighbour's distance, that distance exactly (the inclusive boundary),
\* zero, the not-a-number literal and a word that is no float
RadiusInputs == { "0.134949", "0.13494940315999104", "0", "NaN", "far" }

\* str::parse::<f64> on those arguments: the literals that parse
IsFloatLiteral(s) == s \in { "0.134949", "0.13494940315999104", "0", "NaN" }

\* str::parse::<f64> on those arguments: the value of a literal;
\* 0.13494940315999104 is haversine(60, 0, 60, 1/256) to the last bit
parse_f64(s) ==
  CASE s = "0.134949"            -> F(134949 * DistUnit)
    [] s = "0.13494940315999104" -> F(1079593)
    [] s = "0"                   -> F(0)
    [] s = "NaN"                 -> NaN

\* cell texts, one distinct single-letter token per (table, row, column)
Letters == << "a", "b", "c", "d", "e", "f", "g", "h", "i", "j", "k", "l", "m",
              "n", "o", "p", "q", "r", "s", "t", "u", "v", "w", "x", "y", "z" >>

\* header of the text columns of every input table
Headers == << "name", "kind" >>

CellText(t, r, c) ==
  Letters[((((t - 1) * (MaxRows + 1) + (r - 1)) * Len(Headers) + (c - 1)) % Len(Letters)) + 1]

-----------------------------------------------------------------------------
(* Sequences *)

RECURSIVE SumSeq(_)
SumSeq(s) == IF s = <<>> THEN 0 ELSE Head(s) + SumSeq(Tail(s))

RECURSIVE Flatten(_)
Flatten(ss) == IF ss = <<>> THEN <<>> ELSE Head(ss) \o Flatten(Tail(ss))

RECURSIVE SelectIdx(_, _, _)
\* the elements s[i], i in order, whose 0-based index satisfies keep
SelectIdx(s, keep, i) ==
  IF i > Len(s) THEN <<>>
  ELSE (IF keep[i] THEN <<s[i]>> ELSE <<>>) \o SelectIdx(s, keep, i + 1)

Abs(x) == IF x < 0 THEN -x ELSE x

RECURSIVE SqrtSearch(_, _, _)
\* the largest r in lo..hi with r*r <= n
SqrtSearch(n, lo, hi) ==
  IF lo = hi THEN lo
  ELSE LET mid == (lo + hi + 1) \div 2
       IN  IF mid * mid <= n THEN SqrtSearch(n, mid, hi)
           ELSE SqrtSearch(n, lo, mid - 1)

ISqrt(n) == SqrtSearch(n, 0, 46340)

-----------------------------------------------------------------------------
(* DataFrame *)
\* variant of with_capacity with the fault: the first column of the new
\* table is a compare column
with_capacity_Compares(width, height) ==
  [ path |-> "", delimiter |-> "",
    headers |-> <<>>, shape |-> <<0, 0>>, prefix |-> "",
    data |-> [c \in 1..width |-> <<>>],
    id |-> None, addr1 |-> None, addr2 |-> None, city |-> None,
    state |-> None, zipcode |-> None,
    lat |-> << <<>> >>, lng |-> << <<>> >>,
    output_cols |-> <<>>, compare_cols |-> <<0>> ]

\* DataFrame::with_capacity
with_capacity(width, height) ==
  [ path |-> "", delimiter |-> "",
    headers |-> <<>>, shape |-> <<0, 0>>, prefix |-> "",
    data |-> [c \in 1..width |-> <<>>],
    id |-> None, addr1 |-> None, addr2 |-> None, city |-> None,
    state |-> None, zipcode |-> None,
    lat |-> << <<>> >>, lng |-> << <<>> >>,
    output_cols |-> <<>>, compare_cols |-> <<>> ]

\* a DataFrame as DataFrame::from_path leaves it for file t, a file of the
\* text columns Headers followed by lat and lng, with one row per entry of
\* `coords`; then its output columns, its compare columns and its prefix as
\* the `add` and `prefix` commands set them
LoadedFrame(t, coords, output_cols, compare_cols, prefix) ==
  [ path |-> ToString(t) \o ".csv", delimiter |-> ",",
    headers |-> Headers,
    shape |-> <<Len(Headers) + 2, Len(coords)>>,
    prefix |-> prefix,
    id |-> None, addr1 |-> None, addr2 |-> None, city |-> None,
    state |-> None, zipcode |-> None,
    data |-> [c \in 1..Len(Headers) |-> [r \in 1..Len(coords) |-> CellText(t, r, c)]],
    lat |-> << [r \in 1..Len(coords) |-> coords[r][1]] >>,
    lng |-> << [r \in 1..Len(coords) |-> coords[r][2]] >>,
    output_cols |-> output_cols, compare_cols |-> compare_cols ]

\* DataFrame::ready_to_match
ready_to_match(df) == df.lat # None /\ df.lng # None

\* DataFrame::lat().unwrap()
lat(df) == df.lat[1]

\* DataFrame::lng().unwrap()
lng(df) == df.lng[1]

\* variant of output_headers with the fault: the prefix is left out
output_headers_Unprefixed(df) ==
  [ i \in 1..Len(df.output_cols) |-> df.headers[df.output_cols[i] + 1] ]

\* DataFrame::output_headers
output_headers(df) ==
  [ i \in 1..Len(df.output_cols) |->
      IF df.prefix = "" THEN df.headers[df.output_cols[i] + 1]
      ELSE df.prefix \o "_" \o df.headers[df.output_cols[i] + 1] ]

\* DataFrame::output_row
output_row(df, r) ==
  [ i \in 1..Len(df.output_cols) |-> df.data[df.output_cols[i] + 1][r + 1] ]

\* DataFrame::compare_row
compare_row(df, r) ==
  [ i \in 1..Len(df.compare_cols) |-> df.data[df.compare_cols[i] + 1][r + 1] ]

\* output.data()[0].len(): the number of rows of a frame
RowCount(df) == Len(df.data[1])

-----------------------------------------------------------------------------
(* Distances *)

\* state.rs linear(), with 10 fractional bits, coordinates in 1/2048 degree
linear(lat1, lng1, lat2, lng2) ==
  IF is_nan(lat1) \/ is_nan(lng1) \/ is_nan(lat2) \/ is_nan(lng2) THEN NaN
  ELSE LET dlat == Val(lat2) - Val(lat1)
           dlng == Val(lng2) - Val(lng1)
       IN  F(ISqrt((dlat * dlat + dlng * dlng) * (2 ^ 20)))

\* state.rs haversine() (R = 3958.8 miles), coded in DistUnit-ths of a
\* micro-mile so that two distances, and a distance and a radius, compare in
\* the model as they do in the code: a value of n micro-miles exactly is
\* n * DistUnit, any other value is DistUnit times its whole micro-miles plus
\* its rank among the table's values of the same micro-mile.
\* HavTable[a+1][b+1][d+1] is the value for latitudes LatBase+a and LatBase+b
\* and longitudes d apart (a, b, d in 1/2048 degree, 0..GridStep)
HavTable ==
  <<
    << <<0, 134947, 269897, 404849, 539793, 674745, 809697, 944641, 1079593>>,
       <<269898, 301757, 381690, 486561, 603507, 726721, 853490, 982433, 1112809>>,
       <<539794, 556413, 603509, 674740, 763378, 864089, 973122, 1087985, 1207009>>,
       <<809698, 820867, 853494, 905265, 973123, 1053977, 1145065, 1244153, 1349474>>,
       <<1079594, 1087997, 1112820, 1153002, 1207017, 1273097, 1349475, 1434513, 1526753>>,
       <<1349489, 1356226, 1376218, 1408907, 1453441, 1508769, 1573746, 1647241, 1728169>>,
       <<1619393, 1625003, 1641729, 1669227, 1706979, 1754329, 1810521, 1874753, 1946241>>,
       <<1889289, 1894106, 1908466, 1932177, 1964882, 2006154, 2055466, 2112266, 2175961>>,
       <<2159185, 2163401, 2175985, 2196809, 2225633, 2262153, 2305993, 2356761, 2414017>> >>,
    << <<269898, 301757, 381690, 486561, 603507, 726721, 853490, 982433, 1112809>>,
       <<0, 134946, 269890, 404841, 539785, 674738, 809681, 944625, 1079577>>,
       <<269898, 301756, 381689, 486554, 603498, 726705, 853473, 982425, 1112793>>,
       <<539794, 556412, 603508, 674739, 763377, 864081, 973113, 1087969, 1206993>>,
       <<809698, 820866, 853493, 905259, 973121, 1053969, 1145057, 1244145, 1349458>>,
       <<1079594, 1087996, 1112819, 1153001, 1207011, 1273090, 1349473, 1434505, 1526745>>,
       <<1349489, 1356225, 1376217, 1408906, 1453435, 1508762, 1573745, 1647233, 1728161>>,
       <<1619393, 1625002, 1641722, 1669226, 1706978, 1754322, 1810513, 1874745, 1946233>>,
       <<1889289, 1894105, 1908465, 1932169, 1964881, 2006153, 2055465, 2112265, 2175953>> >>,
    << <<539794, 556413, 603509, 674740, 763378, 864089, 973122, 1087985, 1207009>>,
       <<269898, 301756, 381689, 486554, 603498, 726705, 853473, 982425, 1112793>>,
       <<0, 134945, 269889, 404833, 539777, 674723, 809673, 944617, 1079561>>,
       <<269898, 301755, 381683, 486553, 603489, 726697, 853465, 982409, 1112777>>,
       <<539794, 556411, 603506, 674737, 763369, 864073, 973105, 1087961, 1206977>>,
       <<809698, 820865, 853492, 905258, 973115, 1053961, 1145049, 1244129, 1349449>>,
       <<1079594, 1087995, 1112818, 1152995, 1207010, 1273089, 1349465, 1434489, 1526729>>,
       <<1349489, 1356218, 1376210, 1408905, 1453434, 1508761, 1573737, 1647225, 1728145>>,
       <<1619393, 1625001, 1641721, 1669225, 1706977, 1754321, 1810505, 1874737, 1946217>> >>,
    << <<809698, 820867, 853494, 905265, 973123, 1053977, 1145065, 1244153, 1349474>>,
       <<539794, 556412, 603508, 674739, 763377, 864081, 973113, 1087969, 1206993>>,
       <<269898, 301755, 381683, 486553, 603489, 726697, 853465, 982409, 1112777>>,
       <<0, 134940, 269882, 404826, 539769, 674713, 809657, 944601, 1079545>>,
       <<269898, 301754, 381682, 486546, 603482, 726689, 853449, 982393, 1112761>>,
       <<539794, 556410, 603505, 674730, 763362, 864065, 973089, 1087945, 1206961>>,
       <<809698, 820859, 853491, 905257, 973114, 1053954, 1145041, 1244121, 1349433>>,
       <<1079594, 1087994, 1112817, 1152994, 1207002, 1273081, 1349457, 1434481, 1526721>>,
       <<1349489, 1356217, 1376209, 1408897, 1453433, 1508753, 1573729, 1647217, 1728137>> >>,
    << <<1079594, 1087997, 1112820, 1153002, 1207017, 1273097, 1349475, 1434513, 1526753>>,
       <<809698, 820866, 853493, 905259, 973121, 1053969, 1145057, 1244145, 1349458>>,
       <<539794, 556411, 603506, 674737, 763369, 864073, 973105, 1087961, 1206977>>,
       <<269898, 301754, 381682, 486546, 603482, 726689, 853449, 982393, 1112761>>,
       <<0, 134939, 269881, 404825, 539761, 674705, 809649, 944585, 1079529>>,
       <<269898, 301753, 381681, 486545, 603481, 726681, 853441, 982385, 1112745>>,
       <<539794, 556409, 603500, 674729, 763361, 864057, 973081, 1087937, 1206953>>,
       <<809698, 820858, 853489, 905250, 973107, 1053953, 1145033, 1244113, 1349417>>,
       <<1079594, 1087993, 1112810, 1152993, 1207001, 1273073, 1349450, 1434473, 1526705>> >>,
    << <<1349489, 1356226, 1376218, 1408907, 1453441, 1508769, 1573746, 1647241, 1728169>>,
       <<1079594, 1087996, 1112819, 1153001, 1207011, 1273090, 1349473, 1434505, 1526745>>,
       <<809698, 820865, 853492, 905258, 973115, 1053961, 1145049, 1244129, 1349449>>,
       <<539794, 556410, 603505, 674730, 763362, 864065, 973089, 1087945, 1206961>>,
       <<269898, 301753, 381681, 486545, 603481, 726681, 853441, 982385, 1112745>>,
       <<0, 134938, 269874, 404817, 539753, 674697, 809633, 944577, 1079513>>,
       <<269898, 301747, 381675, 486537, 603473, 726673, 853433, 982369, 1112737>>,
       <<539794, 556402, 603499, 674722, 763353, 864049, 973073, 1087921, 1206937>>,
       <<809698, 820857, 853481, 905249, 973106, 1053945, 1145025, 1244097, 1349409>> >>,
    << <<1619393, 1625003, 1641729, 1669227, 1706979, 1754329, 1810521, 1874753, 1946241>>,
       <<1349489, 1356225, 1376217, 1408906, 1453435, 1508762, 1573745, 1647233, 1728161>>,
       <<1079594, 1087995, 1112818, 1152995, 1207010, 1273089, 1349465, 1434489, 1526729>>,
       <<809698, 820859, 853491, 905257, 973114, 1053954, 1145041, 1244121, 1349433>>,
       <<539794, 556409, 603500, 674729, 763361, 864057, 973081, 1087937, 1206953>>,
       <<269898, 301747, 381675, 486537, 603473, 726673, 853433, 982369, 1112737>>,
       <<0, 134937, 269873, 404809, 539745, 674681, 809625, 944561, 1079497>>,
       <<269898, 301746, 381674, 486530, 603465, 726665, 853417, 982353, 1112721>>,
       <<539794, 556401, 603497, 674721, 763345, 864041, 973065, 1087913, 1206921>> >>,
    << <<1889289, 1894106, 1908466, 1932177, 1964882, 2006154, 2055466, 2112266, 2175961>>,
       <<1619393, 1625002, 1641722, 1669226, 1706978, 1754322, 1810513, 1874745, 1946233>>,
       <<1349489, 1356218, 1376210, 1408905, 1453434, 1508761, 1573737, 1647225, 1728145>>,
       <<1079594, 1087994, 1112817, 1152994, 1207002, 1273081, 1349457, 1434481, 1526721>>,
       <<809698, 820858, 853489, 905250, 973107, 1053953, 1145033, 1244113, 1349417>>,
       <<539794, 556402, 603499, 674722, 763353, 864049, 973073, 1087921, 1206937>>,
       <<269898, 301746, 381674, 486530, 603465, 726665, 853417, 982353, 1112721>>,
       <<0, 134930, 269866, 404802, 539737, 674673, 809609, 944545, 1079481>>,
       <<269898, 301745, 381673, 486529, 603457, 726649, 853409, 982345, 1112705>> >>,
    << <<2159185, 2163401, 2175985, 2196809, 2225633, 2262153, 2305993, 2356761, 2414017>>,
       <<1889289, 1894105, 1908465, 1932169, 1964881, 2006153, 2055465, 2112265, 2175953>>,
       <<1619393, 1625001, 1641721, 1669225, 1706977, 1754321, 1810505, 1874737, 1946217>>,
       <<1349489, 1356217, 1376209, 1408897, 1453433, 1508753, 1573729, 1647217, 1728137>>,
       <<1079594, 1087993, 1112810, 1152993, 1207001, 1273073, 1349450, 1434473, 1526705>>,
       <<809698, 820857, 853481, 905249, 973106, 1053945, 1145025, 1244097, 1349409>>,
       <<539794, 556401, 603497, 674721, 763345, 864041, 973065, 1087913, 1206921>>,
       <<269898, 301745, 381673, 486529, 603457, 726649, 853409, 982345, 1112705>>,
       <<0, 134929, 269865, 404801, 539729, 674665, 809601, 944529, 1079465>> >>
  >>
haversine(lat1, lng1, lat2, lng2) ==
  IF is_nan(lat1) \/ is_nan(lng1) \/ is_nan(lat2) \/ is_nan(lng2) THEN NaN
  ELSE F(HavTable[Val(lat1) - LatBase + 1][Val(lat2) - LatBase + 1]
                 [Abs(Val(lng2) - Val(lng1)) + 1])

\* fuzzywuzzy token_sort_ratio on the one-token cells of the model: equal
\* tokens score 100, "ab" and "ac" share one of two letters each and score
\* 50, any other two tokens share nothing and score 0
token_sort_ratio(s1, s2) ==
  IF s1 = s2 THEN 100
  ELSE IF {s1, s2} = {"ab", "ac"} THEN 50
  ELSE 0

-----------------------------------------------------------------------------
(* State::find_single_match *)

\* variant of Skipped with the fault: the mask is not consulted
Skipped_Never(mask, test_index) == FALSE

\* line 427: a candidate consumed earlier in this pass is skipped
Skipped(mask, test_index) == exclusive /\ mask[test_index + 1]

\* variant of Unresolved with the fault: unresolved candidates are not skipped
Unresolved_Never(test_lat, test_lng) == FALSE

\* line 434: an unresolved candidate is skipped
Unresolved(test_lat, test_lng) == is_nan(test_lat) \/ is_nan(test_lng)

\* variant of IsExact with the fault: only the latitude is compared
IsExact_LatOnly(src_lat, src_lng, test_lat, test_lng) == FloatEq(src_lat, test_lat)

\* line 438
IsExact(src_lat, src_lng, test_lat, test_lng) ==
  FloatEq(src_lat, test_lat) /\ FloatEq(src_lng, test_lng)

\* variant of Nearer with the fault: a candidate at the same planar distance
\* replaces the minimum
Nearer_OrEqual(dist, min) == min = None \/ FloatLe(dist, min[4])

\* line 446: the planar minimum is replaced only by a strictly nearer candidate
Nearer(dist, min) == min = None \/ FloatLt(dist, min[4])

\* lines 426-449, one iteration: acc = [exact, min]
ScanStep(acc, src_lat, src_lng, df2, mask, test_index) ==
  LET test_lat == lat(df2)[test_index + 1]
      test_lng == lng(df2)[test_index + 1]
  IN  IF Skipped(mask, test_index) THEN acc
      ELSE IF Unresolved(test_lat, test_lng) THEN acc
      ELSE IF IsExact(src_lat, src_lng, test_lat, test_lng)
           THEN [acc EXCEPT !.exact = Append(@, test_index)]
      ELSE IF Len(acc.exact) # 0 THEN acc
      ELSE LET dist == linear(src_lat, src_lng, test_lat, test_lng)
           IN  IF Nearer(dist, acc.min)
               THEN [acc EXCEPT !.min = <<test_index, test_lat, test_lng, dist>>]
               ELSE acc

RECURSIVE Scan(_, _, _, _, _, _)
\* lines 426-449: for test_index in 0..df2.shape.1
Scan(acc, src_lat, src_lng, df2, mask, test_index) ==
  IF test_index >= df2.shape[2] THEN acc
  ELSE Scan(ScanStep(acc, src_lat, src_lng, df2, mask, test_index),
            src_lat, src_lng, df2, mask, test_index + 1)

RECURSIVE MinColDist(_, _, _, _)
\* lines 470-476: the least 100 - token_sort_ratio over the source's compare
\* values from position i on, starting from min_col_dist
MinColDist(src_compare, test_col, i, min_col_dist) ==
  IF i > Len(src_compare) THEN min_col_dist
  ELSE LET col_dist == 100 - token_sort_ratio(src_compare[i], test_col)
       IN  MinColDist(src_compare, test_col, i + 1,
             IF min_col_dist = None \/ min_col_dist[1] > col_dist
             THEN <<col_dist>> ELSE min_col_dist)

RECURSIVE CompareDist_Unsquared(_, _, _)
\* variant of CompareDist with the fault: the least distances are summed
\* without being squared
CompareDist_Unsquared(src_compare, test_compare, j) ==
  IF j > Len(test_compare) THEN 0
  ELSE LET m == MinColDist(src_compare, test_compare[j], 1, None)
       IN  (IF m # None THEN m[1] ELSE 0)
           + CompareDist_Unsquared(src_compare, test_compare, j + 1)

RECURSIVE CompareDist(_, _, _)
\* lines 466-480: the sum over the candidate's compare values of the squared
\* least distance; a value with no source value to compare with adds nothing
CompareDist(src_compare, test_compare, j) ==
  IF j > Len(test_compare) THEN 0
  ELSE LET m == MinColDist(src_compare, test_compare[j], 1, None)
       IN  (IF m # None THEN m[1] * m[1] ELSE 0)
           + CompareDist(src_compare, test_compare, j + 1)

\* variant of Better with the fault: an equal score replaces the best candidate
Better_OrEqual(min, dist) == min = None \/ min[2] >= dist

\* line 482: the best candidate is replaced only by a strictly smaller score
Better(min, dist) == min = None \/ min[2] > dist

RECURSIVE TieBreak(_, _, _, _, _)
\* lines 463-487: for test_index in exact
TieBreak(src_compare, df2, exact, k, min) ==
  IF k > Len(exact) THEN min
  ELSE LET dist == CompareDist(src_compare, compare_row(df2, exact[k]), 1)
       IN  TieBreak(src_compare, df2, exact, k + 1,
             IF Better(min, dist) THEN <<exact[k], dist>> ELSE min)

\* lines 490-497: the radius gate on the nearest candidate
RadiusGate(min_index, dist) ==
  IF FloatGt(dist, radius) THEN None ELSE <<min_index, dist>>

\* State::find_single_match: None or <<index, distance>>
find_single_match(record_index, df1, df2, mask) ==
  LET src_lat == lat(df1)[record_index + 1]
      src_lng == lng(df1)[record_index + 1]
  IN  IF is_nan(src_lat) \/ is_nan(src_lng) THEN None
      ELSE LET acc == Scan([exact |-> <<>>, min |-> None],
                           src_lat, src_lng, df2, mask, 0)
           IN  IF Len(acc.exact) = 1 THEN <<acc.exact[1], F(0)>>
               ELSE IF Len(acc.exact) > 1
                    THEN <<TieBreak(compare_row(df1, record_index), df2,
                                    acc.exact, 1, None)[1], F(0)>>
               ELSE IF acc.min # None
                    THEN RadiusGate(acc.min[1],
                           haversine(src_lat, src_lng, acc.min[2], acc.min[3]))
               ELSE None

-----------------------------------------------------------------------------
(* State::find_matches *)

\* lines 256-269: the width of the output
Width ==
  SumSeq([t \in 1..Len(data_frames) |-> Len(output_headers(data_frames[t]))])
  + (IF match_mode = "LEFT" THEN 1 ELSE 0)

\* variant of Height with the fault: the rows of the first table only
Height_FirstTable ==
  IF data_frames = <<>> THEN 0 ELSE data_frames[1].shape[2]

\* lines 256-269: the rows of all tables together
Height == SumSeq([t \in 1..Len(data_frames) |-> data_frames[t].shape[2]])

\* lines 287-297: the headers of the output
MergedHeaders ==
  Flatten([t \in 1..Len(data_frames) |-> output_headers(data_frames[t])])
  \o (IF match_mode = "LEFT" THEN <<"distance">> ELSE <<>>)

\* lines 319-322: a fresh written_mask for table d (0-based)
FreshMask(d) ==
  IF d < Len(data_frames)
  THEN [r \in 1..data_frames[d + 1].shape[2] |-> FALSE]
  ELSE <<>>

\* variant of AppendsTable with the fault: every table is appended, whatever the join
AppendsTable_AnyJoin(d) == TRUE

\* line 361: the rows of table d are appended on any join but a left join,
\* and on a left join for the first table only
AppendsTable(d) == match_mode # "LEFT" \/ d = 0

\* variant of AppendsRow with the fault: consumed rows are appended too
AppendsRow_Consumed(mask, r) == TRUE

\* line 363: the row is appended unless exclusive and consumed in this pass
AppendsRow(mask, r) == (~exclusive) \/ ~mask[r + 1]

\* variant of WritesRow with the fault: the matched flag is not consulted
WritesRow_Unfiltered(r) == TRUE

\* line 407: the row is written unless the join is inner and it never matched
WritesRow(r) == match_mode # "INNER" \/ match_mask[r + 1]

RECURSIVE LoopPosition_AppendsFirst(_, _, _, _, _)
\* variant of LoopPosition with the fault: the rows of a table are appended
\* before the output rows are scanned against it
LoopPosition_AppendsFirst(d, phase, r, ci, rows) ==
  IF d >= Len(data_frames)
  THEN [pc |-> "write", df_index |-> d, row |-> 0, col_index |-> ci]
  ELSE IF phase = "append"
       THEN IF r < rows
            THEN [pc |-> "match", df_index |-> d, row |-> r, col_index |-> ci]
            ELSE LoopPosition_AppendsFirst(d + 1, "match", 0,
                   ci + Len(output_headers(data_frames[d + 1])), rows)
       ELSE IF AppendsTable(d) /\ r < data_frames[d + 1].shape[2]
            THEN [pc |-> "append", df_index |-> d, row |-> r, col_index |-> ci]
            ELSE LoopPosition_AppendsFirst(d, "append", 0, ci, rows)

RECURSIVE LoopPosition(_, _, _, _, _)
\* The next loop iteration find_matches executes from the head of the loop
\* `phase` of table d with loop variable r, col_index ci and `rows` output
\* rows: loops that are finished or empty are left (lines 316, 328, 361-362,
\* 389), until an iteration is found or the tables are exhausted (line 392).
LoopPosition(d, phase, r, ci, rows) ==
  IF d >= Len(data_frames)
  THEN [pc |-> "write", df_index |-> d, row |-> 0, col_index |-> ci]
  ELSE IF phase = "match"
       THEN IF r < rows
            THEN [pc |-> "match", df_index |-> d, row |-> r, col_index |-> ci]
            ELSE LoopPosition(d, "append", 0, ci, rows)
       ELSE IF AppendsTable(d) /\ r < data_frames[d + 1].shape[2]
            THEN [pc |-> "append", df_index |-> d, row |-> r, col_index |-> ci]
            ELSE LoopPosition(d + 1, "match", 0,
                   ci + Len(output_headers(data_frames[d + 1])), rows)

\* variant of MergeRow with the fault: the columns outside the table's slice
\* are blanked in the matched row
MergeRow_BlanksOthers(out, df, ci, r, index, dist) ==
  LET cells == output_row(df, index)
      width == Len(out.data)
  IN  [ out EXCEPT
          !.data = [c \in 1..width |->
                      IF c = width /\ match_mode = "LEFT"
                      THEN [out.data[c] EXCEPT ![r + 1] = FloatToString(dist)]
                      ELSE IF c > ci /\ c <= ci + Len(cells)
                      THEN [out.data[c] EXCEPT ![r + 1] = cells[c - ci]]
                      ELSE [out.data[c] EXCEPT ![r + 1] = ""]],
          !.lat = << [lat(out) EXCEPT ![r + 1] = FloatAvg(@, lat(df)[index + 1])] >>,
          !.lng = << [lng(out) EXCEPT ![r + 1] = FloatAvg(@, lng(df)[index + 1])] >> ]

\* variant of MergeRow with the fault: a distance already written is kept
MergeRow_KeepsDistance(out, df, ci, r, index, dist) ==
  LET cells == output_row(df, index)
      width == Len(out.data)
  IN  [ out EXCEPT
          !.data = [c \in 1..width |->
                      IF c = width /\ match_mode = "LEFT"
                      THEN IF out.data[c][r + 1] = ""
                           THEN [out.data[c] EXCEPT ![r + 1] = FloatToString(dist)]
                           ELSE out.data[c]
                      ELSE IF c > ci /\ c <= ci + Len(cells)
                      THEN [out.data[c] EXCEPT ![r + 1] = cells[c - ci]]
                      ELSE out.data[c]],
          !.lat = << [lat(out) EXCEPT ![r + 1] = FloatAvg(@, lat(df)[index + 1])] >>,
          !.lng = << [lng(out) EXCEPT ![r + 1] = FloatAvg(@, lng(df)[index + 1])] >> ]

\* lines 333-347: output row r takes candidate `index` of df at distance dist
MergeRow(out, df, ci, r, index, dist) ==
  LET cells == output_row(df, index)
      width == Len(out.data)
  IN  [ out EXCEPT
          !.data = [c \in 1..width |->
                      IF c = width /\ match_mode = "LEFT"
                      THEN [out.data[c] EXCEPT ![r + 1] = FloatToString(dist)]
                      ELSE IF c > ci /\ c <= ci + Len(cells)
                      THEN [out.data[c] EXCEPT ![r + 1] = cells[c - ci]]
                      ELSE out.data[c]],
          !.lat = << [lat(out) EXCEPT ![r + 1] = FloatAvg(@, lat(df)[index + 1])] >>,
          !.lng = << [lng(out) EXCEPT ![r + 1] = FloatAvg(@, lng(df)[index + 1])] >> ]

\* variant of PushRow with the fault: the columns after the table's slice
\* are not filled
PushRow_SliceOnly(out, df, ci, r) ==
  LET cells == output_row(df, r)
  IN  [ out EXCEPT
          !.data = [c \in 1..Len(out.data) |->
                      IF c > ci + Len(cells) THEN out.data[c]
                      ELSE Append(out.data[c],
                                  IF c > ci THEN cells[c - ci] ELSE "")],
          !.lat = << Append(lat(out), lat(df)[r + 1]) >>,
          !.lng = << Append(lng(out), lng(df)[r + 1]) >> ]

\* lines 364-380: row r of df becomes a new output row
PushRow(out, df, ci, r) ==
  LET cells == output_row(df, r)
  IN  [ out EXCEPT
          !.data = [c \in 1..Len(out.data) |->
                      Append(out.data[c],
                             IF c > ci /\ c <= ci + Len(cells)
                             THEN cells[c - ci] ELSE "")],
          !.lat = << Append(lat(out), lat(df)[r + 1]) >>,
          !.lng = << Append(lng(out), lng(df)[r + 1]) >> ]

-----------------------------------------------------------------------------
(* The command loop (main.rs) *)

\* find_matches holds no local outside a merge
NoLocals ==
  /\ output = with_capacity(0, 0)
  /\ match_mask = <<>>
  /\ written_mask = <<>>
  /\ col_index = 0
  /\ df_index = 0
  /\ row = 0
  /\ result = None
  /\ origin = <<>>

\* no task is spawned: the count of the tasks at each point of the task body
\* (data_frame.rs lines 445-454). A task without address has yet to return
\* (unaddressed); a task with an address has yet to be polled (spawned),
\* queues on the semaphore (waiting), was handed a permit while queued
\* (granted), holds a permit and performs its request (sending), or has
\* returned or panicked (ended)
NoTasks ==
  [ unaddressed |-> 0, spawned |-> 0, waiting |-> 0, granted |-> 0,
    sending |-> 0, ended |-> 0 ]

\* DataFrame::fetch holds no local outside a fetch, and no file is written
NoFetch ==
  /\ clock = [fired |-> 0, taken |-> 0]
  /\ tasks = <<>>
  /\ census = NoTasks
  /\ permits = 0
  /\ waiters = <<>>
  /\ requests = <<>>
  /\ completed = <<>>
  /\ results = <<>>
  /\ coords_csv = <<>>

\* State::new, then State::add_file for every file of the command line
InitState(frames) ==
  /\ data_frames = frames
  /\ match_mode = "LEFT"
  /\ radius = F(DefaultRadius)
  /\ exclusive = TRUE
  /\ pc = "idle"
  /\ cmd_result = "Ok"
  /\ matches_csv = NoFile
  /\ NoLocals
  /\ pending = <<>>
  /\ NoFetch

\* str::to_lowercase on the words the commands of the model carry (any other
\* word is lower-case already)
to_lowercase(s) ==
  CASE s = "TRUE"  -> "true"
    [] s = "False" -> "false"
    [] s = "CITY"  -> "city"
    [] OTHER       -> s

\* what every command leaves alone: the locals of find_matches and fetch, the
\* files written and the files still to load
CommandFrame ==
  UNCHANGED <<pc, output, match_mask, written_mask, col_index, df_index, row,
              result, origin, matches_csv, pending, fetch_vars>>

\* a command that returns Err(message): nothing but `result` changes
Fails(message) ==
  /\ cmd_result' = message
  /\ UNCHANGED <<data_frames, match_mode, radius, exclusive>>

\* `method left|inner|outer`: State::set_method
SetMethod(input) ==
  /\ pc = "idle"
  /\ IF Len(input) < 2 THEN Fails("method required")
     ELSE IF input[2] \in {"left", "inner", "outer"}
     THEN /\ match_mode' = (CASE input[2] = "left" -> "LEFT"
                              [] input[2] = "inner" -> "INNER"
                              [] input[2] = "outer" -> "OUTER")
          /\ cmd_result' = "Ok"
          /\ UNCHANGED <<data_frames, radius, exclusive>>
     ELSE Fails("Invalid match mode")
  /\ CommandFrame

\* `exclusive true|false`: State::set_exclusive
SetExclusive(input) ==
  /\ pc = "idle"
  /\ IF Len(input) < 2 THEN Fails("val required")
     ELSE IF to_lowercase(input[2]) \in {"true", "false"}
     THEN /\ exclusive' = (to_lowercase(input[2]) = "true")
          /\ cmd_result' = "Ok"
          /\ UNCHANGED <<data_frames, match_mode, radius>>
     ELSE Fails("val must be true or false")
  /\ CommandFrame

\* `radius <f64>`: State::set_radius
SetRadius(input) ==
  /\ pc = "idle"
  /\ IF Len(input) < 2 THEN Fails("radius required")
     ELSE IF IsFloatLiteral(input[2])
     THEN /\ radius' = parse_f64(input[2])
          /\ cmd_result' = "Ok"
          /\ UNCHANGED <<data_frames, match_mode, exclusive>>
     ELSE Fails("invalid float literal")
  /\ CommandFrame

\* `match`: main.rs lines 69-75, then State::find_matches up to its first
\* loop iteration (lines 256-322)
FindMatches ==
  /\ pc = "idle"
  /\ IF \E t \in 1..Len(data_frames) : ~ready_to_match(data_frames[t])
     THEN /\ cmd_result' = "Invalid config for match"
          /\ UNCHANGED <<pc, output, match_mask, written_mask, col_index,
                         df_index, row, result, origin>>
     ELSE IF Width = 0
     THEN /\ cmd_result' = "No output columns supplied"
          /\ UNCHANGED <<pc, output, match_mask, written_mask, col_index,
                         df_index, row, result, origin>>
     ELSE LET pos == LoopPosition(0, "match", 0, 0, 0)
          IN  /\ output' = [with_capacity(Width, Height) EXCEPT
                              !.headers = MergedHeaders,
                              !.output_cols = [i \in 1..Width |-> i - 1]]
              /\ match_mask' = [i \in 1..Height |-> FALSE]
              /\ pc' = pos.pc
              /\ df_index' = pos.df_index
              /\ row' = pos.row
              /\ col_index' = pos.col_index
              /\ written_mask' = FreshMask(pos.df_index)
              /\ result' = None
              /\ origin' = <<>>
              /\ UNCHANGED cmd_result
  /\ UNCHANGED <<data_frames, match_mode, radius, exclusive, matches_csv>>
  /\ UNCHANGED <<pending, fetch_vars>>

\* variant of MatchRow with the fault: the averaged coordinates are written
\* to the matched row of the input table as well
MatchRow_AveragesInput ==
  /\ pc = "match"
  /\ LET df  == data_frames[df_index + 1]
         res == find_single_match(row, output, df, written_mask)
         out == IF res = None THEN output
                ELSE MergeRow(output, df, col_index, row, res[1], res[2])
         pos == LoopPosition(df_index, "match", row + 1, col_index, RowCount(output))
     IN  /\ result' = res
         /\ output' = out
         /\ match_mask' = IF res = None THEN match_mask
                          ELSE [match_mask EXCEPT ![row + 1] = TRUE]
         /\ origin' = IF res = None THEN origin
                      ELSE [origin EXCEPT ![row + 1] = @ \cup {<<df_index, res[1]>>}]
         /\ pc' = pos.pc
         /\ df_index' = pos.df_index
         /\ row' = pos.row
         /\ col_index' = pos.col_index
         /\ written_mask' = IF pos.df_index # df_index THEN FreshMask(pos.df_index)
                            ELSE IF res = None THEN written_mask
                            ELSE [written_mask EXCEPT ![res[1] + 1] = TRUE]
         /\ data_frames' =
              IF res = None THEN data_frames
              ELSE [data_frames EXCEPT
                      ![df_index + 1].lat = << [lat(df) EXCEPT ![res[1] + 1] = lat(out)[row + 1]] >>,
                      ![df_index + 1].lng = << [lng(df) EXCEPT ![res[1] + 1] = lng(out)[row + 1]] >>]
  /\ UNCHANGED <<match_mode, radius, exclusive, cmd_result, matches_csv>>
  /\ UNCHANGED <<pending, fetch_vars>>

\* lines 328-357, one iteration: output row `row` against the current table
MatchRow ==
  /\ pc = "match"
  /\ LET df  == data_frames[df_index + 1]
         res == find_single_match(row, output, df, written_mask)
         out == IF res = None THEN output
                ELSE MergeRow(output, df, col_index, row, res[1], res[2])
         pos == LoopPosition(df_index, "match", row + 1, col_index, RowCount(output))
     IN  /\ result' = res
         /\ output' = out
         /\ match_mask' = IF res = None THEN match_mask
                          ELSE [match_mask EXCEPT ![row + 1] = TRUE]
         /\ origin' = IF res = None THEN origin
                      ELSE [origin EXCEPT ![row + 1] = @ \cup {<<df_index, res[1]>>}]
         /\ pc' = pos.pc
         /\ df_index' = pos.df_index
         /\ row' = pos.row
         /\ col_index' = pos.col_index
         /\ written_mask' = IF pos.df_index # df_index THEN FreshMask(pos.df_index)
                            ELSE IF res = None THEN written_mask
                            ELSE [written_mask EXCEPT ![res[1] + 1] = TRUE]
  /\ UNCHANGED <<data_frames, match_mode, radius, exclusive, cmd_result,
                 matches_csv>>
  /\ UNCHANGED <<pending, fetch_vars>>

\* lines 362-384, one iteration: row `row` of the current table is appended
AppendRow ==
  /\ pc = "append"
  /\ LET df   == data_frames[df_index + 1]
         push == AppendsRow(written_mask, row)
         out  == IF push THEN PushRow(output, df, col_index, row) ELSE output
         pos  == LoopPosition(df_index, "append", row + 1, col_index, RowCount(out))
     IN  /\ output' = out
         /\ origin' = IF push THEN Append(origin, {<<df_index, row>>}) ELSE origin
         /\ pc' = pos.pc
         /\ df_index' = pos.df_index
         /\ row' = pos.row
         /\ col_index' = pos.col_index
         /\ written_mask' = IF pos.df_index # df_index THEN FreshMask(pos.df_index)
                            ELSE written_mask
  /\ UNCHANGED <<data_frames, match_mode, radius, exclusive, cmd_result,
                 match_mask, result, matches_csv>>
  /\ UNCHANGED <<pending, fetch_vars>>

\* lines 397-412: matches.csv is written and find_matches returns
WriteOutput ==
  /\ pc = "write"
  /\ matches_csv' =
       [ exists |-> TRUE,
         headers |-> output_headers(output),
         records |-> SelectIdx([r \in 1..RowCount(output) |-> output_row(output, r - 1)],
                               [r \in 1..RowCount(output) |-> WritesRow(r - 1)], 1) ]
  /\ pc' = "done"
  /\ cmd_result' = "Ok"
  /\ UNCHANGED <<data_frames, match_mode, radius, exclusive, output, match_mask,
                 written_mask, col_index, df_index, row, result, origin>>
  /\ UNCHANGED <<pending, fetch_vars>>

Next ==
  \/ \E method \in {"left", "inner", "outer"} : SetMethod(<<"method", method>>)
  \/ \E val \in {"true", "false"} : SetExclusive(<<"exclusive", val>>)
  \/ \E val \in RadiusInputs : SetRadius(<<"radius", val>>)
  \/ FindMatches
  \/ MatchRow
  \/ AppendRow
  \/ WriteOutput

-----------------------------------------------------------------------------
(* Specifications *)

RECURSIVE SeqsUpTo(_, _)
\* the sequences over S of length at most n
SeqsUpTo(S, n) ==
  IF n = 0 THEN { <<>> }
  ELSE LET shorter == SeqsUpTo(S, n - 1)
       IN  shorter \cup { Append(s, x) : s \in shorter, x \in S }

\* output columns of table t in Spec: two columns out of order, one, none
SpecOutputCols(t) ==
  IF t % 3 = 1 THEN <<1, 0>> ELSE IF t % 3 = 2 THEN <<0>> ELSE <<>>

\* The command loop once the files are loaded and their columns registered:
\* up to MaxTables files of up to MaxRows rows placed at any Coords, column
\* "name" the compare column of each
Init ==
  \E n \in 1..MaxTables :
    \E rows \in [1..n -> SeqsUpTo(Coords, MaxRows)] :
      InitState([t \in 1..n |->
                   LoadedFrame(t, rows[t], SpecOutputCols(t), <<0>>, "")])

Spec == Init /\ [][Next]_vars

\* coordinates of the rows in SpecCols: the base point and its east neighbour
ColsCoords == { <<F(LatBase), F(0)>>, <<F(LatBase), F(GridStep)>> }

\* The command loop once the files are loaded and any `add <file> <column>
\* output` and `prefix <file> <prefix>` commands were given: up to MaxTables
\* files of up to MaxColsRows rows, each with up to MaxOutCols output columns
\* in any order (none, and repeated ones, included) and prefix "" or "p"
InitCols ==
  \E n \in 1..MaxTables :
    \E rows \in [1..n -> SeqsUpTo(ColsCoords, MaxColsRows)] :
      \E cols \in [1..n -> SeqsUpTo(0..(Len(Headers) - 1), MaxOutCols)] :
        \E prefixes \in [1..n -> {"", "p"}] :
          InitState([t \in 1..n |->
                       LoadedFrame(t, rows[t], cols[t], <<0>>, prefixes[t])])

SpecCols == InitCols /\ [][Next]_vars

\* The command loop once the files are loaded: up to MaxChainTables files of
\* up to MaxChainRows rows placed at any Coords, for merges that fold more
\* than one table into the rows of the first
InitChain ==
  \E n \in 1..MaxChainTables :
    \E rows \in [1..n -> SeqsUpTo(Coords, MaxChainRows)] :
      InitState([t \in 1..n |->
                   LoadedFrame(t, rows[t], SpecOutputCols(t), <<0>>, "")])

SpecChain == InitChain /\ [][Next]_vars

\* the cells of the compare columns in SpecTie and SpecText
TieTexts == { "ab", "ac", "de" }

\* the text of one row: its name and its kind
TieRowTexts == TieTexts \X TieTexts

\* a DataFrame like LoadedFrame(t, ...) with the given text in its rows, one
\* row per entry of `texts`, every row at the base point
TextFrame(t, texts, output_cols, compare_cols) ==
  [ LoadedFrame(t, [r \in 1..Len(texts) |-> <<F(LatBase), F(0)>>],
                output_cols, compare_cols, "")
      EXCEPT !.data = [c \in 1..Len(Headers) |->
                         [r \in 1..Len(texts) |-> texts[r][c]]] ]

\* find_single_match is given a source DataFrame of one row with none, one
\* or two compare columns and a DataFrame of MaxTieRows candidates at the
\* source's coordinates with one or two compare columns, none consumed
InitTie ==
  \E src \in TieRowTexts :
    \E src_compare \in { <<>>, <<0>>, <<1, 0>> } :
      \E texts \in [1..MaxTieRows -> TieRowTexts] :
        \E test_compare \in { <<0>>, <<0, 1>> } :
          /\ data_frames = << TextFrame(2, texts, <<0>>, test_compare) >>
          /\ match_mode = "LEFT"
          /\ radius = F(DefaultRadius)
          /\ exclusive = TRUE
          /\ pc = "probe"
          /\ cmd_result = "Ok"
          /\ matches_csv = NoFile
          /\ output = TextFrame(1, << src >>, <<0>>, src_compare)
          /\ match_mask = <<>>
          /\ written_mask = [r \in 1..MaxTieRows |-> FALSE]
          /\ col_index = 0
          /\ df_index = 0
          /\ row = 0
          /\ result = None
          /\ origin = <<>>
          /\ pending = <<>>
          /\ NoFetch

\* the call find_single_match(row, output, df, written_mask)
Probe ==
  /\ pc = "probe"
  /\ result' = find_single_match(row, output, data_frames[df_index + 1], written_mask)
  /\ pc' = "probed"
  /\ UNCHANGED <<data_frames, match_mode, radius, exclusive, cmd_result, output,
                 match_mask, written_mask, col_index, df_index, row, origin,
                 matches_csv, pending, fetch_vars>>

NextTie == Probe

SpecTie == InitTie /\ [][NextTie]_vars

\* The command loop once two files are loaded: one row in the first, and
\* MaxTieRows rows at the same coordinates in the second, with any TieTexts
\* in their two columns, both of them compare columns of both tables
InitText ==
  \E src \in TieRowTexts :
    \E texts \in [1..MaxTieRows -> TieRowTexts] :
      InitState(<< TextFrame(1, << src >>, SpecOutputCols(1), <<0, 1>>),
                   TextFrame(2, texts, SpecOutputCols(2), <<0, 1>>) >>)

SpecText == InitText /\ [][Next]_vars

-----------------------------------------------------------------------------
(* DataFrame::from_path *)

\* a CSV file as the csv reader returns it: its header record and its records
CsvFile(path, headers, records) ==
  [ path |-> path, delimiter |-> ",", headers |-> headers, records |-> records ]

\* lines 131-133: header.to_lowercase().trim().replace(" ", ""), on the
\* headers the files of the model carry (any other header is lower-case and
\* free of spaces already)
match_str(header) ==
  CASE header = "ID"        -> "id"
    [] header = "Address"   -> "address"
    [] header = "Address 2" -> "address2"
    [] header = "City"      -> "city"
    [] header = " State"    -> "state"
    [] header = "Zip"       -> "zip"
    [] header = "Lat"       -> "lat"
    [] header = "Longitude" -> "longitude"
    [] OTHER                -> header

\* lines 134-160: the role a normalised header binds
RoleOf(s) ==
  CASE s = "id"                                    -> "id"
    [] s \in {"addr1", "address", "addr"}          -> "addr1"
    [] s \in {"addr2", "address2"}                 -> "addr2"
    [] s = "city"                                  -> "city"
    [] s = "state"                                 -> "state"
    [] s \in {"zipcode", "zip", "postalcode"}      -> "zipcode"
    [] s \in {"lat", "latitude"}                   -> "lat"
    [] s \in {"lng", "longitude"}                  -> "lng"
    [] OTHER                                       -> "none"

RECURSIVE BindRole(_, _, _, _)
\* lines 130-161: the loop over the headers from position `index` on, for one
\* role: the last header of the role wins
BindRole(headers, role, index, bound) ==
  IF index >= Len(headers) THEN bound
  ELSE BindRole(headers, role, index + 1,
         IF RoleOf(match_str(headers[index + 1])) = role THEN <<index>> ELSE bound)

\* Vec::remove(index)
Remove(s, index) ==
  [ i \in 1..(Len(s) - 1) |-> IF i <= index THEN s[i] ELSE s[i + 1] ]

\* lines 165-180: the headers without the latitude and longitude columns
StripCoordHeaders(headers, lat_i, lng_i) ==
  IF lat_i # None /\ lng_i # None
  THEN IF lat_i[1] > lng_i[1]
       THEN Remove(Remove(headers, lng_i[1]), lat_i[1] - 1)
       ELSE Remove(Remove(headers, lat_i[1]), lng_i[1] - 1)
  ELSE IF lat_i # None THEN Remove(headers, lat_i[1])
  ELSE IF lng_i # None THEN Remove(headers, lng_i[1])
  ELSE headers

\* the cells of the ID column of the files of the model: the row numbers
IsRowNumber(item) == \E r \in 1..QueueRows : item = ToString(r)

\* item.parse::<f64>() on the cells the files of the model carry: the cells
\* that parse
IsCoordLiteral(item) ==
  \/ item \in { "60", "60.25", "0.00390625", "0", "62701" }
  \/ IsRowNumber(item)

\* item.parse::<f64>().unwrap_or(f64::NAN) on the coordinate cells the files
\* of the model carry, in units of 1/2048 degree
parse_coord(item) ==
  CASE item = "60"         -> F(LatBase)
    [] item = "60.25"      -> F(LatBase + 512)
    [] item = "0.00390625" -> F(GridStep)
    [] item = "0"          -> F(0)
    [] item = "62701"      -> F(62701 * 2048)
    [] IsRowNumber(item)   -> F((CHOOSE r \in 1..QueueRows : item = ToString(r)) * 2048)
    [] OTHER               -> NaN

RECURSIVE PlaceRecord(_, _, _, _, _, _)
\* lines 221-232: the items of one record from column `col` on
PlaceRecord(df, record, col, offset, lat_i, lng_i) ==
  IF col >= Len(record) THEN df
  ELSE IF lat_i # None /\ col = lat_i[1]
       THEN PlaceRecord([df EXCEPT !.lat = << Append(@[1], parse_coord(record[col + 1])) >>],
                        record, col + 1, offset + 1, lat_i, lng_i)
  ELSE IF lng_i # None /\ col = lng_i[1]
       THEN PlaceRecord([df EXCEPT !.lng = << Append(@[1], parse_coord(record[col + 1])) >>],
                        record, col + 1, offset + 1, lat_i, lng_i)
  ELSE PlaceRecord([df EXCEPT !.data[col - offset + 1] = Append(@, record[col + 1])],
                   record, col + 1, offset, lat_i, lng_i)

\* lines 218-233: for record in reader.records(), on a DataFrame without
\* rows: every record pushes one item to each column in turn (a record of
\* another length than the header record makes record.unwrap() panic)
ReadRecords(df, records, lat_i, lng_i) ==
  LET pushed == [ r \in 1..Len(records) |->
                    PlaceRecord(df, records[r], 0, 0, lat_i, lng_i) ]
  IN  [ df EXCEPT
          !.data = [ c \in 1..Len(@) |->
                       [ r \in 1..Len(records) |-> pushed[r].data[c][1] ] ],
          !.lat = IF lat_i # None
                  THEN << [ r \in 1..Len(records) |-> pushed[r].lat[1][1] ] >>
                  ELSE @,
          !.lng = IF lng_i # None
                  THEN << [ r \in 1..Len(records) |-> pushed[r].lng[1][1] ] >>
                  ELSE @ ]

\* DataFrame::from_path
from_path(file) ==
  LET lat_i   == BindRole(file.headers, "lat", 0, None)
      lng_i   == BindRole(file.headers, "lng", 0, None)
      headers == StripCoordHeaders(file.headers, lat_i, lng_i)
      empty   ==
        [ path |-> file.path, delimiter |-> file.delimiter,
          headers |-> headers,
          shape |-> <<Len(file.headers), Len(file.records)>>,
          prefix |-> "",
          data |-> [c \in 1..Len(headers) |-> <<>>],
          id      |-> BindRole(file.headers, "id", 0, None),
          addr1   |-> BindRole(file.headers, "addr1", 0, None),
          addr2   |-> BindRole(file.headers, "addr2", 0, None),
          city    |-> BindRole(file.headers, "city", 0, None),
          state   |-> BindRole(file.headers, "state", 0, None),
          zipcode |-> BindRole(file.headers, "zipcode", 0, None),
          lat |-> IF lat_i # None THEN << <<>> >> ELSE None,
          lng |-> IF lng_i # None THEN << <<>> >> ELSE None,
          output_cols |-> <<>>, compare_cols |-> <<>> ]
  IN  ReadRecords(empty, file.records, lat_i, lng_i)

\* State::add_file, as main calls it for the next file of the command line;
\* the command loop starts once every file is loaded
AddFile ==
  /\ pc = "load"
  /\ pending # <<>>
  /\ data_frames' = Append(data_frames, from_path(Head(pending)))
  /\ pending' = Tail(pending)
  /\ pc' = IF Tail(pending) = <<>> THEN "idle" ELSE "load"
  /\ UNCHANGED <<match_mode, radius, exclusive, cmd_result, output, match_mask,
                 written_mask, col_index, df_index, row, result, origin,
                 matches_csv, fetch_vars>>

\* State.file_count, which add_file keeps equal to the number of DataFrames
file_count == Len(data_frames)

-----------------------------------------------------------------------------
(* The commands that configure a DataFrame *)

\* str::parse::<usize> on the words the commands of the model carry: the
\* literals that parse
IsUsizeLiteral(s) == s \in { "0", "1", "2", "3" }

\* str::parse::<usize>: the value of a literal
parse_usize(s) ==
  CASE s = "0" -> 0
    [] s = "1" -> 1
    [] s = "2" -> 2
    [] s = "3" -> 3

RECURSIVE Join(_, _)
\* input[from..].join(" "), with `from` 0-based
Join(input, from) ==
  IF from >= Len(input) THEN ""
  ELSE IF from = Len(input) - 1 THEN input[from + 1]
  ELSE input[from + 1] \o " " \o Join(input, from + 1)

RECURSIVE FindHeader(_, _, _)
\* lines 252-254: the first header equal to col, from position index on
FindHeader(headers, col, index) ==
  IF index >= Len(headers) THEN None
  ELSE IF headers[index + 1] = col THEN <<index>>
  ELSE FindHeader(headers, col, index + 1)

\* variant of get_col_index with the fault: an unknown column name is
\* answered with the first column instead of the error
get_col_index_FirstColumn(df, col) ==
  IF FindHeader(df.headers, col, 0) = None
  THEN << 0 >>
  ELSE FindHeader(df.headers, col, 0)

\* DataFrame::get_col_index: Some(index), or None for the error
get_col_index(df, col) == FindHeader(df.headers, col, 0)

\* the error text of get_col_index
NoColumnNamed(col) == "No column named " \o col

\* DataFrame::set_id, a public function that set_param has no key for and
\* nothing in the program calls: the DataFrame after Ok, written << df >>,
\* or None for the error of get_col_index
set_id(df, col) ==
  IF get_col_index(df, col) = None THEN None
  ELSE << [df EXCEPT !.id = get_col_index(df, col)] >>

\* DataFrame::remove_row, a public function that nothing in the program
\* calls: for each build of the program, with and without overflow checks,
\* the DataFrame as the call leaves it and whether the call panics; which
\* build runs is not known to the model, so that both outcomes are possible.
\* The rows are removed in the order of the code, lat, lng, then the text
\* columns from the first on, and Vec::remove panics on an index that is no
\* row of its vector, with what was removed before it gone; line 584 then
\* takes one from shape.1 without reading it before. On a count of 0 (the
\* count of with_capacity, which find_matches fills and never raises) a
\* build with overflow checks panics there, after the rows are removed, and
\* a build without them (cargo build --release) returns with the count
\* wrapped to usize::MAX, 2^64 - 1 on the 64-bit targets, written here by
\* its decimal digits because the integers of TLC end at 2^31 - 1.
remove_row(df, r) ==
  LET lat_removed ==
        IF df.lat = None THEN df
        ELSE [df EXCEPT !.lat = << Remove(@[1], r) >>]
      lng_removed ==
        IF df.lng = None THEN lat_removed
        ELSE [lat_removed EXCEPT !.lng = << Remove(@[1], r) >>]
      short == { c \in 1..Len(df.data) : r >= Len(df.data[c]) }
      cols_removed(n) ==
        [lng_removed EXCEPT
           !.data = [c \in 1..Len(@) |-> IF c < n THEN Remove(@[c], r) ELSE @[c]]]
      removed == cols_removed(Len(df.data) + 1)
  IN  [ overflow_checks \in BOOLEAN |->
        IF df.lat # None /\ r >= Len(df.lat[1])
        THEN [ panics |-> TRUE, df |-> df ]
        ELSE IF df.lng # None /\ r >= Len(df.lng[1])
        THEN [ panics |-> TRUE, df |-> lat_removed ]
        ELSE IF short # {}
        THEN [ panics |-> TRUE,
               df |-> cols_removed(CHOOSE c \in short : \A d \in short : c <= d) ]
        ELSE IF df.shape[2] > 0
        THEN [ panics |-> FALSE,
               df |-> [removed EXCEPT !.shape = << @[1], @[2] - 1 >>] ]
        ELSE IF overflow_checks
        THEN [ panics |-> TRUE, df |-> removed ]
        ELSE [ panics |-> FALSE,
               df |-> [removed EXCEPT
                         !.shape = << @[1], "18446744073709551615" >>] ] ]

\* data_frames with DataFrame file_index replaced
WithFrame(file_index, df) == [data_frames EXCEPT ![file_index + 1] = df]

\* a command that changed DataFrame file_index and returns Ok
Reconfigures(file_index, df) ==
  /\ data_frames' = WithFrame(file_index, df)
  /\ cmd_result' = "Ok"
  /\ UNCHANGED <<match_mode, radius, exclusive>>

\* `add <file> output|compare <column>`: State::add_match_column; a list
\* already MaxOutCols long is not extended in the model
AddMatchColumn(input) ==
  /\ pc = "idle"
  /\ IF Len(input) < 2 THEN Fails("file_index required")
     ELSE IF ~IsUsizeLiteral(input[2]) THEN Fails("invalid digit found in string")
     ELSE IF Len(input) < 3 THEN Fails("type required")
     ELSE IF Len(input) < 4 THEN Fails("output_col required")
     ELSE LET file_index == parse_usize(input[2])
              col_type   == input[3]
              output_col == Join(input, 3)
          IN  IF file_index >= file_count THEN Fails("Index out of Bounds")
              ELSE LET df    == data_frames[file_index + 1]
                       index == get_col_index(df, output_col)
                   IN  IF col_type = "output"
                       THEN IF index = None THEN Fails(NoColumnNamed(output_col))
                            ELSE /\ Len(df.output_cols) < MaxOutCols
                                 /\ Reconfigures(file_index,
                                      [df EXCEPT !.output_cols = Append(@, index[1])])
                       ELSE IF col_type = "compare"
                       THEN IF index = None THEN Fails(NoColumnNamed(output_col))
                            ELSE /\ Len(df.compare_cols) < MaxOutCols
                                 /\ Reconfigures(file_index,
                                      [df EXCEPT !.compare_cols = Append(@, index[1])])
                       ELSE Fails("Invalid type")
  /\ CommandFrame

\* `prefix <file> <prefix>`: State::set_prefix
SetPrefix(input) ==
  /\ pc = "idle"
  /\ IF Len(input) < 2 THEN Fails("file_index required")
     ELSE IF ~IsUsizeLiteral(input[2]) THEN Fails("invalid digit found in string")
     ELSE IF Len(input) < 3 THEN Fails("prefix required")
     ELSE LET file_index == parse_usize(input[2])
          IN  IF file_index >= file_count THEN Fails("Index out of Bounds")
              ELSE Reconfigures(file_index,
                     [data_frames[file_index + 1] EXCEPT !.prefix = input[3]])
  /\ CommandFrame

\* `list <file>`: State::get_columns, whose headers main prints
GetColumns(input) ==
  /\ pc = "idle"
  /\ IF Len(input) < 2 THEN Fails("file_index required")
     ELSE IF ~IsUsizeLiteral(input[2]) THEN Fails("invalid digit found in string")
     ELSE IF parse_usize(input[2]) >= file_count THEN Fails("Index out of Bounds")
     ELSE /\ cmd_result' = "Ok"
          /\ UNCHANGED <<data_frames, match_mode, radius, exclusive>>
  /\ CommandFrame

\* DataFrame::set_lat and set_lng up to the parse of the column: the column
\* is taken out of the text columns
TakeColumn(df, index) == [df EXCEPT !.data = Remove(@, index)]

\* DataFrame::set_lat and set_lng when every cell of the column parses
SetCoordColumn(df, axis, index) ==
  LET column == [r \in 1..Len(df.data[index + 1]) |-> parse_coord(df.data[index + 1][r])]
      taken  == [TakeColumn(df, index) EXCEPT !.headers = Remove(@, index)]
  IN  IF axis = "lat" THEN [taken EXCEPT !.lat = << column >>]
      ELSE [taken EXCEPT !.lng = << column >>]

\* the keys of `set` that bind a column
RoleKeys == { "addr1", "addr2", "city", "state", "zipcode", "lat", "lng" }

\* `set <file> <key> <column>`: State::set_param; set_lat and set_lng panic
\* on a cell that is no number, which ends the process
SetParam(input) ==
  /\ pc = "idle"
  /\ IF Len(input) < 2 THEN Fails("index is required") /\ CommandFrame
     ELSE IF Len(input) < 3 THEN Fails("key is required") /\ CommandFrame
     ELSE IF ~IsUsizeLiteral(input[2])
     THEN Fails("invalid digit found in string") /\ CommandFrame
     ELSE LET val   == Join(input, 3)
              index == parse_usize(input[2])
              key   == to_lowercase(input[3])
          IN  IF index >= file_count THEN Fails("Index out of Bounds") /\ CommandFrame
              ELSE LET df  == data_frames[index + 1]
                       col == get_col_index(df, val)
                   IN  IF key \notin RoleKeys
                       THEN /\ cmd_result' = "Ok"
                            /\ UNCHANGED <<data_frames, match_mode, radius, exclusive>>
                            /\ CommandFrame
                       ELSE IF col = None THEN Fails(NoColumnNamed(val)) /\ CommandFrame
                       ELSE IF key \in {"lat", "lng"}
                       THEN IF \A r \in 1..Len(df.data[col[1] + 1]) :
                                 IsCoordLiteral(df.data[col[1] + 1][r])
                            THEN Reconfigures(index, SetCoordColumn(df, key, col[1]))
                                 /\ CommandFrame
                            ELSE /\ data_frames' = WithFrame(index, TakeColumn(df, col[1]))
                                 /\ pc' = "aborted"
                                 /\ cmd_result' = "panicked"
                                 /\ UNCHANGED <<match_mode, radius, exclusive, output,
                                                match_mask, written_mask, col_index,
                                                df_index, row, result, origin,
                                                matches_csv, pending, fetch_vars>>
                       ELSE Reconfigures(index, [df EXCEPT ![key] = col]) /\ CommandFrame

-----------------------------------------------------------------------------
(* DataFrame::fetch *)

\* variant of trim with the fault: white space is kept
trim_Kept(s) == s

\* str::trim on the cells the files of the model carry (any other cell has
\* no white space around it)
trim(s) == IF s \in { " ", "  " } THEN "" ELSE s

\* Vec::insert(1, item)
InsertSecond(parts, item) == <<parts[1], item>> \o Tail(parts)

\* DataFrame::get_address: None, or Some(address) written <<address>>
get_address(df, r) ==
  LET required == << df.data[df.addr1[1] + 1][r + 1],
                     df.data[df.city[1] + 1][r + 1],
                     df.data[df.state[1] + 1][r + 1] >>
      zipped   == IF df.zipcode # None
                  THEN Append(required, df.data[df.zipcode[1] + 1][r + 1])
                  ELSE required
      parts    == IF df.addr2 # None
                  THEN InsertSecond(zipped, df.data[df.addr2[1] + 1][r + 1])
                  ELSE zipped
  IN  IF \E i \in 1..3 : trim(required[i]) = "" THEN None
      ELSE << Join(parts, 0) >>

\* DataFrame::ready_to_fetch
ready_to_fetch(df) == df.addr1 # None /\ df.city # None /\ df.state # None

\* the street of row r (1-based) of a fetched file
StreetOf(r) == ToString(r) \o " Main St"

\* the addresses get_address forms for the street of row r in the files of
\* the model
AddressesOf(r) ==
  { StreetOf(r) \o " Springfield IL",
    StreetOf(r) \o " Apt 2 Springfield IL 62701" }

\* the geocoder: latitude, longitude and formatted address of an address of
\* the model, one place per street
Geocode(addr) ==
  LET r == CHOOSE r \in 1..QueueRows : addr \in AddressesOf(r)
  IN  << F(LatBase + r * GridStep), F(r * GridStep), addr \o ", USA" >>

\* what can become of one geocoding request: a result, a result without
\* formatted address, a well-formed answer without results, a failed
\* connection, an answer that is no JSON, an answer with a latitude and no
\* longitude
Outcomes ==
  { "found", "found_no_addr", "zero_results", "net_error", "bad_json", "lat_only" }

\* what a finished task hands to join_all: Ok((lat, lng, addr)), or the
\* JoinError of a task that panicked
TaskOk(lat_v, lng_v, addr) == << "ok", lat_v, lng_v, addr >>
TaskPanicked == << "panic", NaN, NaN, "" >>

\* lines 450-452 with fetch_single (lines 588-621): the task's value for an
\* address and the outcome of its request; `.await?` on a failed send, the
\* unwrap of serde_json::from_str and the unwrap of the missing longitude
\* all panic in the task
TaskReply(addr, outcome) ==
  CASE outcome = "found"         -> TaskOk(Geocode(addr)[1], Geocode(addr)[2], Geocode(addr)[3])
    [] outcome = "found_no_addr" -> TaskOk(Geocode(addr)[1], Geocode(addr)[2], "")
    [] outcome = "zero_results"  -> TaskOk(NaN, NaN, "")
    [] outcome = "net_error"     -> TaskPanicked
    [] outcome = "bad_json"      -> TaskPanicked
    [] outcome = "lat_only"      -> TaskPanicked

\* the DataFrame being fetched
Fetching == data_frames[df_index + 1]

\* lines 409-435 for DataFrame d: a fresh clock, semaphore and task list
BeginFrame(d) ==
  /\ df_index' = d
  /\ row' = 0
  /\ clock' = [fired |-> 0, taken |-> 0]
  /\ tasks' = <<>>
  /\ census' = NoTasks
  /\ permits' = SemaphorePermits
  /\ waiters' = <<>>
  /\ requests' = <<>>
  /\ completed' = <<>>
  /\ results' = <<>>
  /\ pc' = IF data_frames[d + 1].shape[2] = 0 THEN "join" ELSE "tick"

\* `fetch`: main.rs lines 61-67, State::fetch and DataFrame::fetch up to its
\* loop
StartFetch ==
  /\ pc = "idle"
  /\ IF \E t \in 1..Len(data_frames) : ~ready_to_fetch(data_frames[t])
     THEN /\ Fails("Invalid config for fetch")
          /\ CommandFrame
     ELSE /\ BeginFrame(0)
          /\ UNCHANGED <<data_frames, match_mode, radius, exclusive, cmd_result,
                         output, match_mask, written_mask, col_index, result,
                         origin, matches_csv, pending, coords_csv>>

\* the interval clock fires; no more ticks than rows are counted
ClockTick ==
  /\ pc = "tick"
  /\ clock.fired < Fetching.shape[2]
  /\ clock' = [clock EXCEPT !.fired = @ + 1]
  /\ UNCHANGED <<data_frames, match_mode, radius, exclusive, pc, cmd_result,
                 output, match_mask, written_mask, col_index, df_index, row,
                 result, origin, matches_csv, pending, tasks, census, permits,
                 waiters, requests, completed, results, coords_csv>>

\* variant of TickReady with the fault: the loop does not wait for the clock
TickReady_Always == TRUE

\* line 443: clock.tick().await returns when a tick fired that was not taken
TickReady == clock.fired > clock.taken

\* lines 436-454, one iteration: a tick is awaited and the task of `row` is
\* spawned
Submit ==
  /\ pc = "tick"
  /\ TickReady
  /\ clock' = [clock EXCEPT !.taken = @ + 1]
  /\ tasks' = Append(tasks, [ addr |-> get_address(Fetching, row), at |-> "spawned",
                              permit |-> FALSE, out |-> None ])
  /\ row' = row + 1
  /\ pc' = IF row + 1 < Fetching.shape[2] THEN "tick" ELSE "join"
  /\ UNCHANGED <<data_frames, match_mode, radius, exclusive, cmd_result,
                 output, match_mask, written_mask, col_index, df_index,
                 result, origin, matches_csv, pending, census, permits,
                 waiters, requests, completed, results, coords_csv>>

\* variant of CanAcquire with the fault: a permit is handed out whether or
\* not one is free
CanAcquire_Always == TRUE

\* Semaphore::acquire returns at once while a permit is free
CanAcquire == permits > 0

\* what the steps of a task leave alone
TaskFrame ==
  UNCHANGED <<data_frames, match_mode, radius, exclusive, pc, cmd_result,
              output, match_mask, written_mask, col_index, df_index, row,
              result, origin, matches_csv, pending, clock, census, results,
              coords_csv>>

\* lines 446-451: task i (0-based) runs up to its first suspension: it
\* returns for a row without address, or takes a permit and sends its
\* request, or queues on the semaphore
TaskStart(i) ==
  /\ i < Len(tasks)
  /\ tasks[i + 1].at = "spawned"
  /\ IF tasks[i + 1].addr = None
     THEN /\ tasks' = [tasks EXCEPT ![i + 1].at = "done",
                                    ![i + 1].out = TaskOk(NaN, NaN, "")]
          /\ completed' = Append(completed, i)
          /\ UNCHANGED <<permits, waiters, requests>>
     ELSE IF CanAcquire
     THEN /\ permits' = permits - 1
          /\ tasks' = [tasks EXCEPT ![i + 1].at = "sending", ![i + 1].permit = TRUE]
          /\ requests' = Append(requests, tasks[i + 1].addr[1])
          /\ UNCHANGED <<waiters, completed>>
     ELSE /\ tasks' = [tasks EXCEPT ![i + 1].at = "waiting"]
          /\ waiters' = Append(waiters, i)
          /\ UNCHANGED <<permits, requests, completed>>
  /\ TaskFrame

\* lines 450-451: task i, handed a permit while queued, sends its request
TaskResume(i) ==
  /\ i < Len(tasks)
  /\ tasks[i + 1].at = "granted"
  /\ tasks' = [tasks EXCEPT ![i + 1].at = "sending"]
  /\ requests' = Append(requests, tasks[i + 1].addr[1])
  /\ UNCHANGED <<permits, waiters, completed>>
  /\ TaskFrame

\* the tasks after task i dropped its permit: the oldest queued task is
\* handed it, if any
ReleasedTo(ts) ==
  IF waiters # <<>>
  THEN [ts EXCEPT ![Head(waiters) + 1].at = "granted",
                  ![Head(waiters) + 1].permit = TRUE]
  ELSE ts

\* lines 451-453: the request of task i ends with `outcome`; the task
\* returns or panics, and its permit is dropped
TaskFinish(i, outcome) ==
  /\ i < Len(tasks)
  /\ tasks[i + 1].at = "sending"
  /\ tasks' = ReleasedTo([tasks EXCEPT
                            ![i + 1].at = "done",
                            ![i + 1].permit = FALSE,
                            ![i + 1].out = TaskReply(tasks[i + 1].addr[1], outcome)])
  /\ permits' = IF waiters # <<>> THEN permits ELSE permits + 1
  /\ waiters' = IF waiters # <<>> THEN Tail(waiters) ELSE waiters
  /\ completed' = Append(completed, i)
  /\ UNCHANGED requests
  /\ TaskFrame

\* variant of AllFinished with the fault: the tasks are spawned, finished
\* or not
AllFinished_Spawned == Len(tasks) = Fetching.shape[2]

\* the tasks join_all still waits for: all of them are spawned and finished
AllFinished ==
  /\ Len(tasks) = Fetching.shape[2]
  /\ \A i \in 1..Len(tasks) : tasks[i].at = "done"

\* variant of join_all with the fault: the outputs come in the order the
\* tasks completed
join_all_ByCompletion(ts) == [ i \in 1..Len(ts) |-> ts[completed[i] + 1].out ]

\* futures::future::join_all: the outputs of the tasks, in the order of the
\* task list
join_all(ts) == [ i \in 1..Len(ts) |-> ts[i].out ]

\* line 457: join_all(tasks).await
JoinAll ==
  /\ pc = "join"
  /\ AllFinished
  /\ results' = join_all(tasks)
  /\ pc' = "store"
  /\ UNCHANGED <<data_frames, match_mode, radius, exclusive, cmd_result,
                 output, match_mask, written_mask, col_index, df_index, row,
                 result, origin, matches_csv, pending, clock, tasks, census,
                 permits, waiters, requests, completed, coords_csv>>

\* the results line 468 unwraps before the first JoinError, if any
Unwrapped(rs) ==
  LET panics == { i \in 1..Len(rs) : rs[i][1] = "panic" }
      first  == IF panics = {} THEN Len(rs) + 1
                ELSE CHOOSE i \in panics : \A j \in panics : i <= j
  IN  SubSeq(rs, 1, first - 1)

\* variant of Stored with the fault: the normalized addresses take the
\* place of the last text column instead of a column of their own
Stored_OverLastColumn(df, kept) ==
  [ df EXCEPT !.lat = << [ i \in 1..Len(kept) |-> kept[i][2] ] >>,
              !.lng = << [ i \in 1..Len(kept) |-> kept[i][3] ] >>,
              !.headers = Append(@, "norm_address"),
              !.data = [ @ EXCEPT ![Len(@)] = [ i \in 1..Len(kept) |-> kept[i][4] ] ] ]

\* lines 460-473: the DataFrame after the results `kept` were pushed
Stored(df, kept) ==
  [ df EXCEPT !.lat = << [ i \in 1..Len(kept) |-> kept[i][2] ] >>,
              !.lng = << [ i \in 1..Len(kept) |-> kept[i][3] ] >>,
              !.headers = Append(@, "norm_address"),
              !.data = Append(@, [ i \in 1..Len(kept) |-> kept[i][4] ]) ]

\* lines 459-473: the results are stored in the DataFrame; the unwrap of the
\* result of a task that panicked panics in turn, which ends the process
Store ==
  /\ pc = "store"
  /\ data_frames' = WithFrame(df_index, Stored(Fetching, Unwrapped(results)))
  /\ IF Len(Unwrapped(results)) = Len(results)
     THEN pc' = "write_coords" /\ UNCHANGED cmd_result
     ELSE pc' = "aborted" /\ cmd_result' = "panicked"
  /\ UNCHANGED <<match_mode, radius, exclusive, output, match_mask,
                 written_mask, col_index, df_index, row, result, origin,
                 matches_csv, pending, fetch_vars>>

\* Path::file_stem on the paths of the model
file_stem(path) ==
  CASE path = "a.csv" -> "a"
    [] path = "b.csv" -> "b"
    [] OTHER          -> path

\* lines 477-510: the file <stem>_coords.csv of a fetched DataFrame
CoordsFile(df) ==
  [ path |-> file_stem(df.path) \o "_coords.csv",
    delimiter |-> df.delimiter,
    headers |-> df.headers \o <<"lat", "lng">>,
    records |-> [ r \in 1..Len(df.data[1]) |->
                    [ c \in 1..Len(df.data) |-> df.data[c][r] ]
                    \o << FloatToString(lat(df)[r]), FloatToString(lng(df)[r]) >> ] ]

\* lines 475-514, then State::fetch goes on with the next DataFrame or
\* returns
WriteCoords ==
  /\ pc = "write_coords"
  /\ coords_csv' = Append(coords_csv, CoordsFile(Fetching))
  /\ IF df_index + 1 < Len(data_frames)
     THEN BeginFrame(df_index + 1) /\ UNCHANGED cmd_result
     ELSE /\ pc' = "fetched"
          /\ cmd_result' = "Ok"
          /\ UNCHANGED <<df_index, row, clock, tasks, census, permits,
                         waiters, requests, completed, results>>
  /\ UNCHANGED <<data_frames, match_mode, radius, exclusive, output,
                 match_mask, written_mask, col_index, result, origin,
                 matches_csv, pending>>

-----------------------------------------------------------------------------
(* Specifications of loading, configuring and fetching *)

\* State::new with the files of the command line still to load
NewState(files) ==
  /\ data_frames = <<>>
  /\ match_mode = "LEFT"
  /\ radius = F(DefaultRadius)
  /\ exclusive = TRUE
  /\ pc = "load"
  /\ cmd_result = "Ok"
  /\ matches_csv = NoFile
  /\ NoLocals
  /\ pending = files
  /\ NoFetch

\* the cell of a record under a header, for the street of row r
CellOf(header, r) ==
  CASE header = "ID"        -> ToString(r)
    [] header = "Address"   -> StreetOf(r)
    [] header = "Address 2" -> "Apt 2"
    [] header = "City"      -> "Springfield"
    [] header = " State"    -> "IL"
    [] header = "Zip"       -> "62701"
    [] header = "Lat"       -> "60"
    [] header = "Longitude" -> "0.00390625"
    [] OTHER                -> ""

\* the headers of a file with every role but the coordinates
RoleHeaders == << "ID", "Address", "Address 2", "City", " State", "Zip" >>

\* s with x inserted before its element of 0-based position p
InsertAt(s, p, x) == SubSeq(s, 1, p) \o <<x>> \o SubSeq(s, p + 1, Len(s))

\* the header records of the files loaded in SpecLoad: RoleHeaders with a
\* latitude column, a longitude column, both or none, at any position
LoadHeaders ==
  LET with_lat == { InsertAt(RoleHeaders, p, "Lat") : p \in 0..Len(RoleHeaders) }
  IN  {RoleHeaders} \cup with_lat
      \cup { InsertAt(RoleHeaders, p, "Longitude") : p \in 0..Len(RoleHeaders) }
      \cup UNION { { InsertAt(h, q, "Longitude") : q \in 0..Len(h) } : h \in with_lat }

\* a file of one record under the given headers
OneRecordFile(headers) ==
  CsvFile("a.csv", headers, << [ c \in 1..Len(headers) |-> CellOf(headers[c], 1) ] >>)

\* main before the command loop: one file of the command line, with any of
\* LoadHeaders, is loaded
InitLoad == \E headers \in LoadHeaders : NewState(<< OneRecordFile(headers) >>)

NextLoad == AddFile

SpecLoad == InitLoad /\ [][NextLoad]_vars

\* the command lines of SpecCmd: every configuring command with its
\* arguments right, missing, malformed, out of range or unknown
MethodLines ==
  { <<"method">>, <<"method", "left">>, <<"method", "inner">>,
    <<"method", "outer">>, <<"method", "full">> }
ExclusiveLines ==
  { <<"exclusive">>, <<"exclusive", "TRUE">>, <<"exclusive", "False">>,
    <<"exclusive", "maybe">> }
RadiusLines == { <<"radius">>, <<"radius", "0.134949">>, <<"radius", "far">> }
AddLines ==
  { <<"add">>, <<"add", "x", "output", "City">>, <<"add", "0">>,
    <<"add", "0", "output">>, <<"add", "1", "output", "City">>,
    <<"add", "0", "output", "Address", "2">>,
    <<"add", "0", "output", "Town">>, <<"add", "0", "compare", "City">>,
    <<"add", "0", "compare", "Town">>, <<"add", "0", "both", "City">> }
PrefixLines ==
  { <<"prefix">>, <<"prefix", "x", "p">>, <<"prefix", "0">>,
    <<"prefix", "1", "p">>, <<"prefix", "0", "p">> }
ListLines == { <<"list">>, <<"list", "x">>, <<"list", "1">>, <<"list", "0">> }
SetLines ==
  { <<"set">>, <<"set", "0">>, <<"set", "x", "city", "City">>,
    <<"set", "1", "city", "City">>, <<"set", "0", "city">>,
    <<"set", "0", "city", "Town">>, <<"set", "0", "CITY", "Address">>,
    <<"set", "0", "lat", "Zip">>, <<"set", "0", "lat", "Town">>,
    <<"set", "0", "lng", "City">>, <<"set", "0", "colour", "City">> }

\* the header record of the file loaded in SpecCmd: every role column, then
\* both coordinate columns
CmdHeaders == { RoleHeaders \o << "Lat", "Longitude" >> }

InitCmd == \E headers \in CmdHeaders : NewState(<< OneRecordFile(headers) >>)

\* main: the file is loaded, then the command loop takes configuring commands
NextCmd ==
  \/ AddFile
  \/ \E input \in MethodLines : SetMethod(input)
  \/ \E input \in ExclusiveLines : SetExclusive(input)
  \/ \E input \in RadiusLines : SetRadius(input)
  \/ \E input \in AddLines : AddMatchColumn(input)
  \/ \E input \in PrefixLines : SetPrefix(input)
  \/ \E input \in ListLines : GetColumns(input)
  \/ \E input \in SetLines : SetParam(input)

SpecCmd == InitCmd /\ [][NextCmd]_vars

\* the rows of the files fetched in SpecFetch: a full address, a street of
\* one space, an empty city
RowKinds == { "full", "blank_street", "no_city" }

\* the cell of a row of the given kind under a header
FetchCell(header, r, kind) ==
  CASE kind = "blank_street" /\ header = "Address" -> " "
    [] kind = "no_city" /\ header = "City"         -> ""
    [] OTHER                                       -> CellOf(header, r)

\* a file with one record per kind under the given headers
FetchFile(path, headers, kinds) ==
  CsvFile(path, headers,
          [ r \in 1..Len(kinds) |->
              [ c \in 1..Len(headers) |-> FetchCell(headers[c], r, kinds[r]) ] ])

\* the header records of the files fetched in SpecFetch: the required roles,
\* every role, and a file without city column
FetchHeaders ==
  { << "Address", "City", " State" >>, RoleHeaders, << "Address", " State" >> }

\* the command lines of SpecFetch: one file of up to MaxFetchRows rows, or
\* that file with at most one row and a second file of one full row
InitFetch ==
  \E headers \in FetchHeaders :
    \E kinds \in SeqsUpTo(RowKinds, MaxFetchRows) :
      \/ NewState(<< FetchFile("a.csv", headers, kinds) >>)
      \/ /\ Len(kinds) <= 1
         /\ NewState(<< FetchFile("a.csv", headers, kinds),
                        FetchFile("b.csv", headers, << "full" >>) >>)

\* main: the files are loaded, then the command loop takes `fetch`; the
\* clock, the spawned tasks and the requests run interleaved; with no more
\* than MaxFetchRows rows no task finds the semaphore without a permit, so
\* that TaskResume has no task to resume
NextFetch ==
  \/ AddFile
  \/ StartFetch
  \/ ClockTick
  \/ Submit
  \/ \E i \in 0..(MaxFetchRows - 1) : TaskStart(i)
  \/ \E i \in 0..(MaxFetchRows - 1) : \E outcome \in Outcomes : TaskFinish(i, outcome)
  \/ JoinAll
  \/ Store
  \/ WriteCoords

SpecFetch == InitFetch /\ [][NextFetch]_vars

-----------------------------------------------------------------------------
(* DataFrame::fetch with its tasks counted *)

\* The semaphore has 30 permits, so a task queues only from the 31st row
\* on, and that many tasks, each at a point of its own, make more states
\* than can be listed. SpecCount follows the same code with the tasks
\* counted at each point of the task body instead of listed row by row:
\* which row's task is which is left out, the clock, the loop, the semaphore
\* and every order of polls and returns are kept.

\* the tasks that were spawned
Spawned(c) ==
  c.unaddressed + c.spawned + c.waiting + c.granted + c.sending + c.ended

\* what the counted steps of a fetch leave alone
CountedFrame ==
  UNCHANGED <<data_frames, match_mode, radius, exclusive, cmd_result,
              output, match_mask, written_mask, col_index, df_index,
              result, origin, matches_csv, pending, tasks, waiters,
              requests, completed, results, coords_csv>>

\* lines 436-454, one iteration: a tick is awaited and the task of `row` is
\* spawned
CountedSubmit ==
  /\ pc = "tick"
  /\ TickReady
  /\ clock' = [clock EXCEPT !.taken = @ + 1]
  /\ census' = IF get_address(Fetching, row) = None
               THEN [census EXCEPT !.unaddressed = @ + 1]
               ELSE [census EXCEPT !.spawned = @ + 1]
  /\ row' = row + 1
  /\ pc' = IF row + 1 < Fetching.shape[2] THEN "tick" ELSE "join"
  /\ UNCHANGED permits
  /\ CountedFrame

\* lines 446-451: a spawned task runs up to its first suspension: one
\* without address returns, one with an address takes a permit and sends
\* its request, or queues on the semaphore
CountedStart(addressed) ==
  /\ IF addressed
     THEN /\ census.spawned > 0
          /\ IF CanAcquire
             THEN /\ permits' = permits - 1
                  /\ census' = [census EXCEPT !.spawned = @ - 1, !.sending = @ + 1]
             ELSE /\ census' = [census EXCEPT !.spawned = @ - 1, !.waiting = @ + 1]
                  /\ UNCHANGED permits
     ELSE /\ census.unaddressed > 0
          /\ census' = [census EXCEPT !.unaddressed = @ - 1, !.ended = @ + 1]
          /\ UNCHANGED permits
  /\ UNCHANGED <<pc, row, clock>>
  /\ CountedFrame

\* lines 450-451: a task that was handed a permit while queued sends its
\* request
CountedResume ==
  /\ census.granted > 0
  /\ census' = [census EXCEPT !.granted = @ - 1, !.sending = @ + 1]
  /\ UNCHANGED <<pc, row, clock, permits>>
  /\ CountedFrame

\* variant of Handed with the fault: the permit a finished task drops is
\* handed to nobody
Handed_Nobody(c) == c

\* the tasks after one of them dropped its permit: a queued task is handed
\* it, if any
Handed(c) ==
  IF c.waiting > 0
  THEN [c EXCEPT !.waiting = @ - 1, !.granted = @ + 1]
  ELSE c

\* lines 451-453: the request of a task ends, with any of Outcomes: the task
\* returns or panics, and its permit is dropped
CountedFinish ==
  /\ census.sending > 0
  /\ census' = Handed([census EXCEPT !.sending = @ - 1, !.ended = @ + 1])
  /\ permits' = IF census.waiting > 0 THEN permits ELSE permits + 1
  /\ UNCHANGED <<pc, row, clock>>
  /\ CountedFrame

\* line 457: join_all(tasks).await returns once every row has its task and
\* every task has ended
CountedJoin ==
  /\ pc = "join"
  /\ Spawned(census) = Fetching.shape[2]
  /\ census.ended = Fetching.shape[2]
  /\ pc' = "store"
  /\ UNCHANGED <<row, clock, census, permits>>
  /\ CountedFrame

\* the command line of SpecCount: one file of QueueRows rows, more than the
\* semaphore has permits, every row with a full address
InitCount ==
  NewState(<< FetchFile("a.csv", << "Address", "City", " State" >>,
                        [ r \in 1..QueueRows |-> "full" ]) >>)

\* main: the file is loaded, then the command loop takes `fetch`, which is
\* followed to the return of join_all; the clock, the loop, the polls of
\* the spawned tasks and the returns of the requests run interleaved
NextCount ==
  \/ AddFile
  \/ StartFetch
  \/ ClockTick
  \/ CountedSubmit
  \/ \E addressed \in BOOLEAN : CountedStart(addressed)
  \/ CountedResume
  \/ CountedFinish
  \/ CountedJoin

SpecCount == InitCount /\ [][NextCount]_vars

\* what the tokio runtime and the premises of termination provide: the
\* interval clock keeps firing, the fetch loop and join_all are polled when
\* they can go on, and while there is a task to poll or a request in flight,
\* a task is polled or a request returns. This asks less than that every
\* single task is polled and every single request returns.
CountFairness ==
  /\ WF_vars(ClockTick)
  /\ WF_vars(CountedSubmit)
  /\ WF_vars(\E addressed \in BOOLEAN : CountedStart(addressed))
  /\ WF_vars(CountedResume)
  /\ WF_vars(CountedFinish)
  /\ WF_vars(CountedJoin)

SpecCountLive == SpecCount /\ CountFairness

\* the header records of the files loaded in SpecBind: the zip column first,
\* and last
BindHeaders ==
  { << "Zip", "Address", "City", " State" >>,
    << "Address", "City", " State", "Zip" >> }

\* the command lines of SpecBind: columns are registered for output and for
\* comparison, a role is bound, and the zip column is made the latitude
BindAddLines ==
  { <<"add", "0", "output", "City">>, <<"add", "0", "output", "Zip">>,
    <<"add", "0", "compare", "Address">> }
BindSetLines ==
  { <<"set", "0", "addr2", "City">>, <<"set", "0", "lat", "Zip">>,
    <<"set", "0", "lng", "Zip">> }

InitBind == \E headers \in BindHeaders : NewState(<< OneRecordFile(headers) >>)

\* main: the file is loaded, then the command loop takes `add` and `set`
NextBind ==
  \/ AddFile
  \/ \E input \in BindAddLines : AddMatchColumn(input)
  \/ \E input \in BindSetLines : SetParam(input)

SpecBind == InitBind /\ [][NextBind]_vars
-----------------------------------------------------------------------------
(* Claims *)

\* the input rows <<table, row>>, 0-based
InputRows ==
  UNION { { <<t - 1, r - 1>> : r \in 1..data_frames[t].shape[2] } :
          t \in 1..Len(data_frames) }

\* the output rows (0-based) that hold input row p
Holders(p) == { x \in 0..(Len(origin) - 1) : p \in origin[x + 1] }

\* the matches made: every output row holds one appended row, and one more
\* for each match it received
MatchesMade == SumSeq([x \in 1..Len(origin) |-> Cardinality(origin[x]) - 1])

\* C1: after a merge under LEFT, whatever the exclusivity, the output holds
\* one row per row of the first table, in the first table's order, each
\* holding that row of the first table and no other row of it; every one of
\* them is written, so the written rows are as many as the first table's rows.
C1_LeftOneRowPerFirstTableRow ==
  (pc = "done" /\ match_mode = "LEFT") =>
    /\ RowCount(output) = data_frames[1].shape[2]
    /\ Len(matches_csv.records) = data_frames[1].shape[2]
    /\ \A x \in 1..RowCount(output) :
         /\ { p \in origin[x] : p[1] = 0 } = { <<0, x - 1>> }
         /\ matches_csv.records[x] = output_row(output, x - 1)

\* a left join of two tables of two rows written, with a row of the second
\* table merged into an output row and another one dropped
C1_Witness ==
  /\ pc = "done" /\ match_mode = "LEFT"
  /\ Len(data_frames) = 2
  /\ data_frames[1].shape[2] = 2 /\ data_frames[2].shape[2] = 2
  /\ \E x \in 1..Len(origin) : Cardinality(origin[x]) = 2
  /\ \E p \in InputRows : p[1] = 1 /\ Holders(p) = {}

\* C2 as claimed: after a merge under OUTER, whatever the exclusivity, every
\* input row of every table is held by exactly one output row, and the
\* written rows are the input rows less the matches made.
C2_OuterEveryRowOnce_AnyExclusivity ==
  (pc = "done" /\ match_mode = "OUTER") =>
    /\ \A p \in InputRows : Cardinality(Holders(p)) = 1
    /\ Len(matches_csv.records) = Height - MatchesMade

\* C2 as amended: after a merge under OUTER with exclusive matching, every
\* input row of every table is held by exactly one output row (merged into
\* an earlier row or appended as a new one), and the written rows are the
\* input rows less the matches made.
C2_OuterEveryRowOnce_Exclusive ==
  (pc = "done" /\ match_mode = "OUTER" /\ exclusive) =>
    /\ \A p \in InputRows : Cardinality(Holders(p)) = 1
    /\ Len(matches_csv.records) = Height - MatchesMade

\* an exclusive outer join of two tables written, with a row of the second
\* table merged and another one appended
C2_Witness ==
  /\ pc = "done" /\ match_mode = "OUTER" /\ exclusive
  /\ Len(data_frames) = 2
  /\ MatchesMade >= 1
  /\ \E x \in 1..Len(origin) : \E p \in origin[x] : p[1] = 1 /\ origin[x] = {p}

\* the accumulated rows that received a match, by the merge history
Matched(x) == Cardinality(origin[x]) >= 2
Kept == { x \in 1..RowCount(output) : match_mode # "INNER" \/ Matched(x) }

\* C3: an accumulated row's matched flag is true exactly when some table's
\* pass merged a row into it; under INNER the written rows are exactly the
\* flagged rows, in order, and under LEFT and OUTER every accumulated row is
\* written.
C3_InnerWritesMatchedRowsOnly ==
  pc = "done" =>
    /\ \A x \in 1..RowCount(output) : match_mask[x] <=> Matched(x)
    /\ Len(matches_csv.records) = Cardinality(Kept)
    /\ \A x \in Kept :
         matches_csv.records[Cardinality({ y \in Kept : y <= x })]
           = output_row(output, x - 1)

\* an inner join written with a matched row kept and an unmatched row dropped
C3_Witness ==
  /\ pc = "done" /\ match_mode = "INNER"
  /\ \E x \in 1..RowCount(output) : Matched(x)
  /\ \E x \in 1..RowCount(output) : ~Matched(x)
  /\ Len(matches_csv.records) < RowCount(output)

\* the output rows into which input row p was merged (not appended)
MergedInto(p) == { x \in Holders(p) : \E q \in origin[x + 1] : q[1] < p[1] }

\* C4: with the exclusive flag set, no row of an input table is merged into
\* more than one output row, and find_single_match never returns a candidate
\* that is marked in written_mask.
C4_ExclusiveCandidateOnce ==
  /\ [](exclusive => \A p \in InputRows : Cardinality(MergedInto(p)) <= 1)
  /\ [][(pc = "match" /\ exclusive /\ result' # None)
          => ~written_mask[result'[1] + 1]]_vars

\* an exclusive merge in which a second-table row with the coordinates of two
\* first-table rows was taken by the first of them and not by the second
C4_Witness ==
  /\ pc = "done" /\ exclusive /\ Len(data_frames) = 2
  /\ \E a, b \in 1..data_frames[1].shape[2] : \E c \in 1..data_frames[2].shape[2] :
       /\ a < b
       /\ ~is_nan(lat(data_frames[1])[a]) /\ ~is_nan(lng(data_frames[1])[a])
       /\ lat(data_frames[1])[a] = lat(data_frames[1])[b]
       /\ lng(data_frames[1])[a] = lng(data_frames[1])[b]
       /\ lat(data_frames[1])[a] = lat(data_frames[2])[c]
       /\ lng(data_frames[1])[a] = lng(data_frames[2])[c]
       /\ <<1, c - 1>> \in origin[a]
       /\ <<1, c - 1>> \notin origin[b]

\* The call find_single_match(row, output, data_frames[df_index], written_mask)
\* that the step from a state with pc = "match" makes: its source row, and
\* the candidates the scan may consider.
Candidates == data_frames[df_index + 1]
SrcLat == lat(output)[row + 1]
SrcLng == lng(output)[row + 1]
CandLat(i) == lat(Candidates)[i + 1]
CandLng(i) == lng(Candidates)[i + 1]
SourceResolved == ~is_nan(SrcLat) /\ ~is_nan(SrcLng)
Eligible ==
  { i \in 0..(Candidates.shape[2] - 1) :
      /\ ~(exclusive /\ written_mask[i + 1])
      /\ ~is_nan(CandLat(i)) /\ ~is_nan(CandLng(i)) }
ExactSet == { i \in Eligible : CandLat(i) = SrcLat /\ CandLng(i) = SrcLng }
InputLat(p) == lat(data_frames[p[1] + 1])[p[2] + 1]
InputLng(p) == lng(data_frames[p[1] + 1])[p[2] + 1]
UnresolvedInput(p) == is_nan(InputLat(p)) \/ is_nan(InputLng(p))

\* C5: when the source row is resolved and exactly one eligible candidate has
\* its coordinates on both axes, the call returns that candidate with
\* distance 0, whatever the radius and the other candidates.
C5_SingleExactMatchDistanceZero ==
  [][(pc = "match" /\ SourceResolved /\ Cardinality(ExactSet) = 1)
      => \E i \in ExactSet : result' = <<i, F(0)>>]_vars

\* a merge under radius 0 in which the first output row took the second row
\* of the second table, its only equal candidate, past a nearer-scanned
\* resolved row elsewhere
C5_Witness ==
  /\ pc = "done" /\ Len(data_frames) = 2 /\ radius = F(0)
  /\ data_frames[1].shape[2] >= 1 /\ data_frames[2].shape[2] = 2
  /\ ~UnresolvedInput(<<0, 0>>) /\ ~UnresolvedInput(<<1, 0>>)
  /\ <<InputLat(<<1, 0>>), InputLng(<<1, 0>>)>> # <<InputLat(<<0, 0>>), InputLng(<<0, 0>>)>>
  /\ <<InputLat(<<1, 1>>), InputLng(<<1, 1>>)>> = <<InputLat(<<0, 0>>), InputLng(<<0, 0>>)>>
  /\ origin[1] = { <<0, 0>>, <<1, 1>> }

\* the candidate the scan keeps as nearest: the first eligible one at the
\* least planar distance
ProxyNearest ==
  CHOOSE i \in Eligible :
    \A j \in Eligible :
      LET di == linear(SrcLat, SrcLng, CandLat(i), CandLng(i))
          dj == linear(SrcLat, SrcLng, CandLat(j), CandLng(j))
      IN  FloatLt(di, dj) \/ (FloatEq(di, dj) /\ i <= j)

\* C6: when no eligible candidate has the source's coordinates, the nearest
\* candidate is returned, with its haversine distance, if and only if that
\* distance is less than or equal to the radius; otherwise there is no match.
C6_RadiusGateInclusive ==
  [][(pc = "match" /\ SourceResolved /\ ExactSet = {} /\ Eligible # {})
      => LET n == ProxyNearest
             d == haversine(SrcLat, SrcLng, CandLat(n), CandLng(n))
         IN  IF FloatLe(d, radius) THEN result' = <<n, d>> ELSE result' = None]_vars

\* the least index of a non-empty set of row indexes
First(S) == CHOOSE i \in S : \A j \in S : i <= j

\* C7: when more than one eligible candidate has the source's coordinates,
\* the call returns the first of them in scan order, a candidate fixed by the
\* tables and the mask alone, with distance 0.
C7_MultipleExactFirstDistanceZero ==
  [][(pc = "match" /\ SourceResolved /\ Cardinality(ExactSet) > 1)
      => result' = <<First(ExactSet), F(0)>>]_vars

\* a merge in which both rows of the second table had the coordinates of the
\* first output row, which took the first of them
C7_Witness ==
  /\ pc = "done" /\ Len(data_frames) = 2
  /\ data_frames[1].shape[2] >= 1 /\ data_frames[2].shape[2] = 2
  /\ ~UnresolvedInput(<<0, 0>>)
  /\ <<InputLat(<<1, 0>>), InputLng(<<1, 0>>)>> = <<InputLat(<<0, 0>>), InputLng(<<0, 0>>)>>
  /\ <<InputLat(<<1, 1>>), InputLng(<<1, 1>>)>> = <<InputLat(<<0, 0>>), InputLng(<<0, 0>>)>>
  /\ origin[1] = { <<0, 0>>, <<1, 0>> }

\* C8: a row with a not-a-number coordinate never takes part in a match: the
\* call returns no match for an unresolved source row and never returns an
\* unresolved candidate, so an output row holding such a row holds nothing
\* else; and when its table's rows are appended (the first table, or any
\* table unless the join is LEFT) the row is an accumulated output row of its
\* own with its coordinates unchanged, written to the file unless the join is
\* INNER.
C8_UnresolvedRowsNeverMatch ==
  /\ [][(pc = "match" /\ ~SourceResolved) => result' = None]_vars
  /\ [][(pc = "match" /\ result' # None) => result'[1] \in Eligible]_vars
  /\ [](\A x \in 1..Len(origin) : \A p \in origin[x] :
          UnresolvedInput(p) => origin[x] = {p})
  /\ [](pc = "done" =>
          \A p \in InputRows :
            (UnresolvedInput(p) /\ (p[1] = 0 \/ match_mode # "LEFT")) =>
              \E x \in 1..RowCount(output) :
                /\ origin[x] = {p}
                /\ lat(output)[x] = InputLat(p)
                /\ lng(output)[x] = InputLng(p)
                /\ match_mode # "INNER" =>
                     matches_csv.records[x] = output_row(output, x - 1))

\* an outer join written with an unresolved row in each of two tables, next
\* to a match between two resolved rows
C8_Witness ==
  /\ pc = "done" /\ match_mode = "OUTER" /\ Len(data_frames) = 2
  /\ MatchesMade >= 1
  /\ \E p, q \in InputRows :
       /\ p[1] = 0 /\ q[1] = 1
       /\ UnresolvedInput(p) /\ UnresolvedInput(q)
       /\ Holders(p) # {} /\ Holders(q) # {}

\* no table has a selected output column
NoOutputColumns == \A t \in 1..Len(data_frames) : data_frames[t].output_cols = <<>>

\* C9: in every join mode, the `match` command given when no table has a
\* selected output column fails with 'No output columns supplied', starts no
\* merge and writes no file.
C9_NoOutputColumnsFails ==
  [][(NoOutputColumns /\ FindMatches)
      => /\ cmd_result' = "No output columns supplied"
         /\ pc' = "idle"
         /\ matches_csv' = NoFile]_vars

\* the number of output columns of the tables before table t (1-based)
ColumnCount(t) == Len(data_frames[t].output_cols)
Offset(t) == SumSeq([s \in 1..(t - 1) |-> ColumnCount(s)])
ColumnName(t, i) ==
  LET name == data_frames[t].headers[data_frames[t].output_cols[i] + 1]
  IN  IF data_frames[t].prefix = "" THEN name
      ELSE data_frames[t].prefix \o "_" \o name
ColumnTotal == SumSeq([t \in 1..Len(data_frames) |-> ColumnCount(t)])
HeaderAsClaimed(h) ==
  /\ Len(h) = ColumnTotal + (IF match_mode = "LEFT" THEN 1 ELSE 0)
  /\ \A t \in 1..Len(data_frames) : \A i \in 1..ColumnCount(t) :
       h[Offset(t) + i] = ColumnName(t, i)
  /\ match_mode = "LEFT" => h[Len(h)] = "distance"

\* C10: the merged output has as many columns as the tables have selected
\* output columns together, plus one last 'distance' column under LEFT only;
\* its header, in the accumulated table and in the written file, is the
\* tables' selected column names in table order, prefixed by '<prefix>_' for
\* a table with a prefix; and the values of a row of table k that an output
\* row holds fill the slice that starts at the column count of the tables
\* before k, the slice of a table the row holds nothing of being blank.
C10_OutputWidthHeaderAndSlices ==
  pc \in {"match", "append", "write", "done"} =>
    /\ Len(output.data) = Len(output.headers)
    /\ HeaderAsClaimed(output.headers)
    /\ pc = "done" => matches_csv.headers = output.headers
    /\ \A x \in 1..Len(origin) : \A t \in 1..Len(data_frames) :
         \A i \in 1..ColumnCount(t) :
           LET held == { p \in origin[x] : p[1] = t - 1 }
               cell == output.data[Offset(t) + i][x]
           IN  IF held = {} THEN cell = ""
               ELSE \E p \in held :
                      cell = data_frames[t].data[data_frames[t].output_cols[i] + 1][p[2] + 1]

\* a left join of two tables written, the first with prefix and two output
\* columns, the second with one, and the second's row merged into the first's
C10_Witness ==
  /\ pc = "done" /\ match_mode = "LEFT" /\ Len(data_frames) = 2
  /\ data_frames[1].prefix = "p" /\ ColumnCount(1) = 2 /\ ColumnCount(2) = 1
  /\ Len(origin) = 1 /\ Cardinality(origin[1]) = 2
  /\ Len(matches_csv.headers) = 4

\* the roles from_path binds to text columns
TextRoles == { "id", "addr1", "addr2", "city", "state", "zipcode" }

\* C16: after from_path, for any header order, every bound role is an index
\* smaller than the number of text columns and designates the text column
\* whose header matched that role.
C16_RoleBindingsValid ==
  [][AddFile =>
      LET df == data_frames'[Len(data_frames')]
      IN  \A role \in TextRoles :
            df[role] # None =>
              /\ df[role][1] < Len(df.data)
              /\ RoleOf(match_str(df.headers[df[role][1] + 1])) = role]_vars

\* the state the commands configure
Configuration == <<data_frames, match_mode, radius, exclusive>>

\* main.rs lines 40-109: the handler a command line is dispatched to
Command(input) ==
  CASE input[1] = "method"    -> SetMethod(input)
    [] input[1] = "exclusive" -> SetExclusive(input)
    [] input[1] = "radius"    -> SetRadius(input)
    [] input[1] = "add"       -> AddMatchColumn(input)
    [] input[1] = "prefix"    -> SetPrefix(input)
    [] input[1] = "list"      -> GetColumns(input)
    [] input[1] = "set"       -> SetParam(input)

CommandLines ==
  MethodLines \cup ExclusiveLines \cup RadiusLines \cup AddLines
  \cup PrefixLines \cup ListLines \cup SetLines

\* the table a command names is missing, no number, or out of range
BadTable(input) ==
  \/ Len(input) < 2
  \/ input[2] \notin { "0", "1", "2", "3" }
  \/ \A t \in 1..Len(data_frames) : ToString(t - 1) # input[2]

\* the column named by the words from 0-based position `from` on is no
\* header of the table the command names
UnknownColumn(input, from) ==
  \A t \in 1..Len(data_frames) :
    ToString(t - 1) = input[2] =>
      \A c \in 1..Len(data_frames[t].headers) :
        data_frames[t].headers[c] # Join(input, from)

\* a command line with a configuration error: an argument missing, a
\* malformed number or boolean, an unknown join mode, a table index out of
\* range, an unknown column type or an unknown column name
ConfigurationError(input) ==
  CASE input[1] = "method" ->
         Len(input) < 2 \/ input[2] \notin { "left", "inner", "outer" }
    [] input[1] = "exclusive" ->
         Len(input) < 2 \/ input[2] \notin { "true", "false", "TRUE", "False" }
    [] input[1] = "radius" ->
         Len(input) < 2 \/ input[2] \notin { "0.134949", "0.13494940315999104", "0", "NaN" }
    [] input[1] = "add" ->
         \/ BadTable(input) \/ Len(input) < 4
         \/ input[3] \notin { "output", "compare" }
         \/ UnknownColumn(input, 3)
    [] input[1] = "prefix" -> BadTable(input) \/ Len(input) < 3
    [] input[1] = "list" -> BadTable(input)
    [] input[1] = "set" ->
         \/ BadTable(input) \/ Len(input) < 3
         \/ (to_lowercase(input[3]) \in RoleKeys /\ UnknownColumn(input, 3))

\* C17: a configuring command whose line has a configuration error returns
\* an error to the command loop, which goes on, and leaves the DataFrames,
\* the match mode, the radius and the exclusivity as they were.
C17_ConfigurationErrorsLeaveState ==
  [][\A input \in CommandLines :
       (ConfigurationError(input) /\ Command(input)) =>
         /\ cmd_result' \notin { "Ok", "panicked" }
         /\ pc' = "idle"
         /\ Configuration' = Configuration]_vars

\* a configured state (inner join, prefix, an output column) in which the
\* last command named an unknown column and was refused
C17_Witness ==
  /\ pc = "idle"
  /\ cmd_result = "No column named Town"
  /\ match_mode = "INNER"
  /\ Len(data_frames) = 1
  /\ data_frames[1].prefix = "p"
  /\ data_frames[1].output_cols # <<>>

\* the tasks that hold a permit of the semaphore: those that were handed
\* one while queued, and those that perform their request
PermitHolders == census.granted + census.sending

\* a step of a fetch: a request is sent only by taking a free permit or by
\* a task that was handed one, and a permit is freed or handed on only when
\* a request ends
PermitHeldThroughRequest ==
  /\ census'.sending > census.sending =>
       /\ census'.sending = census.sending + 1
       /\ \/ permits' = permits - 1 /\ census'.granted = census.granted
          \/ permits' = permits /\ census'.granted = census.granted - 1
  /\ (/\ pc \in { "tick", "join" }
      /\ permits' + census'.granted > permits + census.granted) =>
       /\ census'.sending = census.sending - 1
       /\ census'.ended = census.ended + 1
       /\ permits' + census'.granted = permits + census.granted + 1

\* C12: at every moment of a fetch the tasks that hold a permit, those that
\* perform their request among them, are no more than 30, whatever the
\* number of rows and the order of the polls and of the returns: the free
\* permits and the held ones are the 30 of the semaphore, and a task queues
\* only when none is free. A task holds its permit from before its request
\* is sent until it ends: a request is sent only in a step that takes a free
\* permit or by a task that was handed one, and a permit is freed or handed
\* on only in the step in which a request ends.
C12_PermitsBoundRequests ==
  /\ [](pc \in { "tick", "join", "store" } =>
          /\ PermitHolders <= 30
          /\ permits >= 0
          /\ permits + PermitHolders = SemaphorePermits
          /\ census.waiting > 0 => permits = 0)
  /\ [][PermitHeldThroughRequest]_vars

\* every permit is held by a task performing its request while another
\* task queues for one, after requests have ended
C12_Witness ==
  /\ census.sending = SemaphorePermits
  /\ census.waiting > 0
  /\ census.ended > 0

\* the latitude, longitude and normalized address stored for row i (1-based)
\* of the DataFrame being fetched
StoredRow(i) ==
  << lat(Fetching)[i], lng(Fetching)[i],
     Fetching.data[Len(Fetching.data)][i] >>

\* C11: when the request of one row fails (network error or malformed
\* response) the fetch is not aborted: it completes, that row is stored as
\* (NaN, NaN, ""), and every other row is stored with its own result.
C11_FailureIsolation ==
  /\ pc # "aborted"
  /\ pc \in { "write_coords", "fetched" } =>
       \A i \in 1..Len(tasks) :
         StoredRow(i) = IF tasks[i].out[1] = "panic"
                        THEN << NaN, NaN, "" >>
                        ELSE SubSeq(tasks[i].out, 2, 4)

\* a cell that is empty after trimming
Blank(cell) == cell \in { "", " ", "  " }

\* row i (1-based) of the DataFrame being fetched has a blank address_line1,
\* city or state
BlankRow(i) ==
  \/ Blank(Fetching.data[Fetching.addr1[1] + 1][i])
  \/ Blank(Fetching.data[Fetching.city[1] + 1][i])
  \/ Blank(Fetching.data[Fetching.state[1] + 1][i])

\* C13: the task of a row whose address_line1, city or state is empty after
\* trimming has no address, never holds a permit, never sends a request and
\* resolves to (NaN, NaN, ""); only rows with an address send requests, so
\* a fetch of a table of blank rows sends none and stores NaN for every row.
C13_BlankRowsMakeNoRequest ==
  /\ \A i \in 1..Len(tasks) :
       BlankRow(i) =>
         /\ tasks[i].addr = None
         /\ ~tasks[i].permit
         /\ tasks[i].at \in { "spawned", "done" }
         /\ tasks[i].at = "done" => tasks[i].out = TaskOk(NaN, NaN, "")
  /\ Len(requests) <= Cardinality({ i \in 1..Len(tasks) : ~BlankRow(i) })
  /\ (tasks # <<>> /\ \A i \in 1..Len(tasks) : BlankRow(i)) =>
       /\ requests = <<>>
       /\ pc \in { "write_coords", "fetched" } =>
            \A i \in 1..Len(tasks) : StoredRow(i) = << NaN, NaN, "" >>

\* a finished fetch of a table of MaxFetchRows rows, all blank, rows of both
\* blank kinds among them
C13_Witness ==
  /\ pc = "fetched"
  /\ Len(tasks) = MaxFetchRows
  /\ \A i \in 1..Len(tasks) : BlankRow(i)
  /\ \E i \in 1..Len(tasks) : Fetching.data[Fetching.addr1[1] + 1][i] = " "
  /\ \E i \in 1..Len(tasks) : Fetching.data[Fetching.city[1] + 1][i] = ""
  /\ requests = <<>>

\* C14: when the results of a fetch of a table of n rows are stored and the
\* fetch completes, the table still has n rows, its latitudes and its
\* longitudes are n entries each, one text column "norm_address" of n
\* entries (the empty string for an unresolved row) is added after the
\* columns it had, and those columns, like every other table, are unchanged.
C14_FetchPostcondition ==
  [][/\ (pc = "store" /\ pc' = "write_coords") =>
          LET old == Fetching
              new == data_frames'[df_index + 1]
              n   == old.shape[2]
          IN  /\ new.shape = old.shape
              /\ Len(new.lat[1]) = n
              /\ Len(new.lng[1]) = n
              /\ new.headers = Append(old.headers, "norm_address")
              /\ new.data = Append(old.data, [ i \in 1..n |-> results[i][4] ])
              /\ \A i \in 1..n :
                   results[i] = TaskOk(NaN, NaN, "") =>
                     new.lat[1][i] = NaN /\ new.lng[1][i] = NaN /\ new.data[Len(new.data)][i] = ""
              /\ \A t \in 1..Len(data_frames) :
                   t # df_index + 1 => data_frames'[t] = data_frames[t]
     /\ pc = "write_coords" => data_frames' = data_frames]_vars

\* a completed fetch of a table of MaxFetchRows rows, one of them resolved
\* and one unresolved
C14_Witness ==
  /\ pc = "fetched"
  /\ Fetching.shape[2] = MaxFetchRows
  /\ Len(Fetching.lat[1]) = MaxFetchRows
  /\ \E i \in 1..MaxFetchRows : StoredRow(i) = << NaN, NaN, "" >>
  /\ \E i \in 1..MaxFetchRows : StoredRow(i)[3] # ""

\* every row of the DataFrame being fetched has a task, and every task has
\* finished and dropped its permit
TasksDone ==
  /\ Len(tasks) = Fetching.shape[2]
  /\ \A i \in 1..Len(tasks) : tasks[i].at = "done" /\ ~tasks[i].permit

\* C15: join barrier: fetch holds the collected results, stores into the
\* table and writes the coordinates file only when every row's task has been
\* submitted and has completed; no task runs while the results are written.
C15_JoinBarrier ==
  /\ [](pc \in { "store", "write_coords", "fetched", "aborted" } => TasksDone)
  /\ [][(pc # "load" /\ (data_frames' # data_frames \/ coords_csv' # coords_csv
                         \/ (results' # results /\ results' # <<>>)))
          => TasksDone]_vars

\* the results are about to be stored; the task submitted last sent its
\* request last and finished last
C15_Witness ==
  /\ pc = "store"
  /\ Len(tasks) = MaxFetchRows
  /\ Len(requests) = MaxFetchRows
  /\ requests[MaxFetchRows] = tasks[MaxFetchRows].addr[1]
  /\ completed[MaxFetchRows] = MaxFetchRows - 1

\* C19: the results of a fetch are stored by submission order: in a completed
\* fetch the latitude, longitude and normalized address at index i are the
\* result of the task spawned for the address of row i, in whatever order the
\* tasks completed.
C19_StoredBySubmissionOrder ==
  pc \in { "write_coords", "fetched" } =>
    \A i \in 1..Len(tasks) :
      /\ StoredRow(i) = SubSeq(tasks[i].out, 2, 4)
      /\ BlankRow(i) \/ tasks[i].addr[1] \in AddressesOf(i)
      /\ StoredRow(i)[3] # "" =>
           \E addr \in AddressesOf(i) : StoredRow(i) = Geocode(addr)

\* a completed fetch of MaxFetchRows resolved rows whose tasks completed in
\* the reverse of the submission order
C19_Witness ==
  /\ pc = "fetched"
  /\ Len(tasks) = MaxFetchRows
  /\ \A i \in 1..MaxFetchRows :
       completed[i] = MaxFetchRows - i /\ StoredRow(i)[3] # ""

\* what a submission is: one more task, that of the row the loop stands at,
\* not yet polled; one tick that had fired is consumed; the semaphore and
\* the tasks that stand at it are left alone
SubmittedInTurn ==
  Spawned(census') > Spawned(census) =>
    /\ Spawned(census') = Spawned(census) + 1
    /\ row' = row + 1
    /\ clock.fired > clock.taken
    /\ clock' = [clock EXCEPT !.taken = @ + 1]
    /\ permits' = permits
    /\ census' = IF get_address(Fetching, row) = None
                 THEN [census EXCEPT !.unaddressed = @ + 1]
                 ELSE [census EXCEPT !.spawned = @ + 1]

\* C20: submission throttling: every spawned task consumed one tick of the
\* clock that had fired, so the tasks are as many as the ticks taken and no
\* more than the ticks fired; the task spawned next is that of the next row;
\* and a row is submitted as soon as a tick is there, whatever the state of
\* the semaphore, which a submission leaves alone.
C20_SubmissionThrottled ==
  /\ [](pc \in { "tick", "join", "store" } =>
          /\ Spawned(census) = clock.taken
          /\ clock.taken <= clock.fired
          /\ row = Spawned(census)
          /\ (pc = "tick" /\ clock.fired > clock.taken) => ENABLED CountedSubmit)
  /\ [][SubmittedInTurn]_vars

\* a tick has fired for the next row while every permit is held by a request
\* in flight and a task queues on the semaphore
C20_Witness ==
  /\ pc = "tick"
  /\ clock.fired > clock.taken
  /\ permits = 0
  /\ census.sending = SemaphorePermits
  /\ census.waiting > 0
  /\ row < Fetching.shape[2]

\* C18: find_matches never changes an input table: no step of a merge, and
\* no refused merge, changes any field of any DataFrame, in any mode and
\* exclusivity.
C18_MergeLeavesInputs ==
  [][(\/ pc # "idle"
      \/ pc' # "idle"
      \/ cmd_result' \in { "Invalid config for match", "No output columns supplied" })
        => data_frames' = data_frames]_vars

\* a merge of two tables or more that matched a row and wrote matches.csv
C18_Witness ==
  /\ pc = "done"
  /\ matches_csv.exists
  /\ Len(data_frames) >= 2
  /\ \E r \in 1..Len(match_mask) : match_mask[r]
  /\ \E r \in 1..Len(origin) : \E m \in origin[r] : m[1] >= 1

\* the output rows (0-based) that input row p was appended as: those that
\* hold p and no row of an earlier table
AppendedAs(p) == { x \in Holders(p) : \A q \in origin[x + 1] : p[1] <= q[1] }

\* C21: once every table is scanned, a row of the first table is an appended
\* output row; a row of a later table is one only when the mode is not LEFT;
\* where rows are appended, under exclusive=true the appended rows are those
\* no output row consumed in the table's pass, and under exclusive=false
\* every row of the table, the merged ones included; each appended once.
C21_AppendPolicy ==
  /\ [](pc \in { "write", "done" } =>
          \A p \in InputRows :
            IF /\ p[1] = 0 \/ match_mode # "LEFT"
               /\ (~exclusive) \/ MergedInto(p) = {}
            THEN Cardinality(AppendedAs(p)) = 1
            ELSE AppendedAs(p) = {})
  /\ [][pc = "append" =>
          /\ df_index = 0 \/ match_mode # "LEFT"
          /\ RowCount(output') =
               RowCount(output)
               + (IF exclusive /\ written_mask[row + 1] THEN 0 ELSE 1)]_vars

\* an outer join of two tables written without exclusivity, in which a row
\* of the second table was merged into an output row and appended as well,
\* next to a row of it that was appended only
C21_Witness ==
  /\ pc = "done" /\ match_mode = "OUTER" /\ ~exclusive /\ Len(data_frames) = 2
  /\ \E p \in InputRows : p[1] = 1 /\ MergedInto(p) # {} /\ AppendedAs(p) # {}
  /\ \E p \in InputRows : p[1] = 1 /\ MergedInto(p) = {} /\ AppendedAs(p) # {}

\* the haversine distance of the source row to candidate i
TrueDistance(i) == haversine(SrcLat, SrcLng, CandLat(i), CandLng(i))

\* the planar proxy distance of the source row to candidate i
ProxyDistance(i) == linear(SrcLat, SrcLng, CandLat(i), CandLng(i))

\* C22: when no eligible candidate has the source's coordinates, a match can
\* only be the eligible candidate at the least planar distance, the first of
\* those at that distance, with its haversine distance and never the planar
\* value; when that candidate's haversine distance exceeds the radius there
\* is no match, whatever the other candidates.
C22_NearestByProxyThenHaversine ==
  [][(pc = "match" /\ SourceResolved /\ ExactSet = {}) =>
       /\ result' # None =>
            /\ Eligible # {}
            /\ result' = <<ProxyNearest, TrueDistance(ProxyNearest)>>
            /\ result'[2] # ProxyDistance(ProxyNearest)
       /\ (Eligible # {} /\ FloatGt(TrueDistance(ProxyNearest), radius)) =>
            result' = None]_vars

\* a merge under the default radius in which the first output row stayed
\* unmatched: of two candidates at the same planar distance the first, the
\* north neighbour, lies beyond the radius, the second, the east neighbour,
\* within it
C22_Witness ==
  /\ pc = "done" /\ Len(data_frames) = 2 /\ radius = F(DefaultRadius)
  /\ data_frames[1].shape[2] >= 1 /\ data_frames[2].shape[2] = 2
  /\ <<InputLat(<<0, 0>>), InputLng(<<0, 0>>)>> = <<F(LatBase), F(0)>>
  /\ <<InputLat(<<1, 0>>), InputLng(<<1, 0>>)>> = <<F(LatBase + GridStep), F(0)>>
  /\ <<InputLat(<<1, 1>>), InputLng(<<1, 1>>)>> = <<F(LatBase), F(GridStep)>>
  /\ FloatLe(haversine(F(LatBase), F(0), F(LatBase), F(GridStep)), radius)
  /\ origin[1] = { <<0, 0>> }

\* m is the arithmetic mean of the numbers a and b
IsMean(m, a, b) ==
  (~is_nan(m)) /\ (~is_nan(a)) /\ (~is_nan(b)) /\ 2 * Val(m) = Val(a) + Val(b)

\* s and t are equal outside position x (1-based)
SameBut(s, t, x) ==
  Len(s) = Len(t) /\ \A y \in 1..Len(s) : y # x => s[y] = t[y]

\* C24: a match of output row r with candidate c makes the row's latitude and
\* its longitude the mean of their former value and the candidate's, which
\* leaves them as they were on an exact match; the coordinates of the rows
\* that did not match in the step are unchanged; an appended row has the
\* coordinates of its input row, NaN included, and changes no other row's.
C24_CoordinatesAveraged ==
  /\ [][(pc = "match" /\ result' # None) =>
          /\ IsMean(lat(output')[row + 1], SrcLat, CandLat(result'[1]))
          /\ IsMean(lng(output')[row + 1], SrcLng, CandLng(result'[1]))
          /\ result'[2] = F(0) =>
               lat(output')[row + 1] = SrcLat /\ lng(output')[row + 1] = SrcLng
          /\ SameBut(lat(output'), lat(output), row + 1)
          /\ SameBut(lng(output'), lng(output), row + 1)]_vars
  /\ [][(pc = "match" /\ result' = None) =>
          lat(output') = lat(output) /\ lng(output') = lng(output)]_vars
  /\ [][(pc = "append" /\ RowCount(output') > RowCount(output)) =>
          /\ lat(output') = Append(lat(output), CandLat(row))
          /\ lng(output') = Append(lng(output), CandLng(row))]_vars

\* a merge written in which the first output row, at the base point, took
\* its east neighbour and lies half way between them, next to an appended
\* unresolved row
C24_Witness ==
  /\ pc = "done" /\ Len(data_frames) = 2
  /\ data_frames[1].shape[2] = 2
  /\ origin[1] = { <<0, 0>>, <<1, 0>> }
  /\ <<InputLat(<<0, 0>>), InputLng(<<0, 0>>)>> = <<F(LatBase), F(0)>>
  /\ <<InputLat(<<1, 0>>), InputLng(<<1, 0>>)>> = <<F(LatBase), F(GridStep)>>
  /\ lat(output)[1] = F(LatBase)
  /\ lng(output)[1] = F(GridStep \div 2)
  /\ origin[2] = { <<0, 1>> }
  /\ UnresolvedInput(<<0, 1>>)
  /\ <<lat(output)[2], lng(output)[2]>> = <<InputLat(<<0, 1>>), InputLng(<<0, 1>>)>>

\* row x (1-based) of the output table: its cells and its coordinates
OutputLine(out, x) ==
  << [c \in 1..Len(out.data) |-> out.data[c][x]], out.lat[1][x], out.lng[1][x] >>

\* C26: during a merge every text column of the output table and both of its
\* coordinate sequences have the same number of entries; a match step keeps
\* the number of rows and every row but the matched one as it is, and an
\* append step adds at most one row, at the end: no output row is removed or
\* moved.
C26_OutputLockstep ==
  /\ [](pc \in { "match", "append", "write", "done" } =>
          /\ Len(lat(output)) = RowCount(output)
          /\ Len(lng(output)) = RowCount(output)
          /\ \A c \in 1..Len(output.data) : Len(output.data[c]) = RowCount(output))
  /\ [][pc = "match" =>
          /\ RowCount(output') = RowCount(output)
          /\ \A x \in 1..RowCount(output) :
               (x # row + 1 \/ result' = None) =>
                 OutputLine(output', x) = OutputLine(output, x)]_vars
  /\ [][pc = "append" =>
          /\ RowCount(output') \in { RowCount(output), RowCount(output) + 1 }
          /\ \A x \in 1..RowCount(output) :
               OutputLine(output', x) = OutputLine(output, x)]_vars
  /\ [][pc = "write" => output' = output]_vars

\* an outer join of two tables of two rows with a match written: three output
\* rows in two columns or more
C26_Witness ==
  /\ pc = "done" /\ match_mode = "OUTER"
  /\ Len(output.data) >= 2
  /\ RowCount(output) = 3
  /\ Len(lat(output)) = 3
  /\ MatchesMade = 1

\* the rows of all input tables together
TotalRows == SumSeq([t \in 1..Len(data_frames) |-> data_frames[t].shape[2]])

\* C29: in every state of a merge, in every mode and exclusivity, match_mask
\* is as long as the input tables have rows together and the output rows
\* are no more than that, so the row a match step looks at and every row
\* the writer looks at has an entry in match_mask.
C29_MatchMaskCoversOutput ==
  pc \in { "match", "append", "write", "done" } =>
    /\ Len(match_mask) = TotalRows
    /\ RowCount(output) <= Len(match_mask)
    /\ pc = "match" => row < Len(match_mask)

\* an outer join without exclusivity written with a match made: the output
\* rows are as many as match_mask is long
C29_Witness ==
  /\ pc = "done" /\ match_mode = "OUTER" /\ ~exclusive
  /\ Len(data_frames) = 2 /\ TotalRows = 4
  /\ MatchesMade >= 1
  /\ RowCount(output) = Len(match_mask)

\* column c (1-based) of the output lies in the slice of table t (1-based)
InSlice(c, t) == Offset(t) < c /\ c <= Offset(t) + ColumnCount(t)

\* the value of row r (0-based) of table t in the column of its slice that
\* is output column c
SliceValue(c, t, r) ==
  data_frames[t].data[data_frames[t].output_cols[c - Offset(t)] + 1][r + 1]

\* column c is the distance column of a left join
IsDistanceColumn(c) == match_mode = "LEFT" /\ c = Len(output.data)

\* C25: a row appended in the pass of table k holds table k's selected values
\* in k's slice and the empty string in every other column, the slices of
\* the tables before and after k and the distance column of a left join; a
\* match with a row of table j puts that row's selected values in j's slice
\* and leaves every other text column of the output row, but the distance
\* column of a left join, as it was.
C25_SlicesOfAnOutputRow ==
  /\ [][(pc = "append" /\ RowCount(output') > RowCount(output)) =>
          \A c \in 1..Len(output.data) :
            output'.data[c][RowCount(output')] =
              IF InSlice(c, df_index + 1)
              THEN SliceValue(c, df_index + 1, row)
              ELSE ""]_vars
  /\ [][(pc = "match" /\ result' # None) =>
          \A c \in 1..Len(output.data) :
            IF InSlice(c, df_index + 1)
            THEN output'.data[c][row + 1] = SliceValue(c, df_index + 1, result'[1])
            ELSE IsDistanceColumn(c)
                 \/ output'.data[c][row + 1] = output.data[c][row + 1]]_vars

\* an exclusive outer join written: the first output row holds its two
\* values of the first table and the value of the second table's row merged
\* into it, the last one a row of the second table after two blanks
C25_Witness ==
  /\ pc = "done" /\ match_mode = "OUTER" /\ exclusive /\ Len(data_frames) = 2
  /\ ColumnCount(1) = 2 /\ ColumnCount(2) = 1
  /\ data_frames[1].shape[2] >= 1 /\ data_frames[2].shape[2] = 2
  /\ \E r \in 0..1 :
       /\ origin[1] = { <<0, 0>>, <<1, r>> }
       /\ OutputLine(output, 1)[1]
            = << SliceValue(1, 1, 0), SliceValue(2, 1, 0), SliceValue(3, 2, r) >>
       /\ origin[RowCount(output)] = { <<1, 1 - r>> }
       /\ OutputLine(output, RowCount(output))[1]
            = << "", "", SliceValue(3, 2, 1 - r) >>

\* the distance field of output row x (1-based) of a left join
DistanceField(out, x) == out.data[Len(out.data)][x]

\* C27: under LEFT the distance field of an output row is the empty string
\* while the row has not matched; a match writes the decimal text of its
\* distance there, "0" when a candidate had the row's coordinates, over the
\* distance of an earlier table's match; a pass without match for the row
\* leaves the field as it was, so it holds the distance of the last match.
C27_LeftDistanceField ==
  /\ [](pc \in { "match", "append", "write", "done" } /\ match_mode = "LEFT" =>
          \A x \in 1..RowCount(output) :
            ~Matched(x) => DistanceField(output, x) = "")
  /\ [][(pc = "match" /\ match_mode = "LEFT") =>
          /\ SameBut(output'.data[Len(output.data)], output.data[Len(output.data)], row + 1)
          /\ IF result' = None
             THEN DistanceField(output', row + 1) = DistanceField(output, row + 1)
             ELSE /\ DistanceField(output', row + 1) = FloatToString(result'[2])
                  /\ ExactSet # {} => DistanceField(output', row + 1) = "0"
                  /\ ExactSet = {} =>
                       DistanceField(output', row + 1)
                         = FloatToString(TrueDistance(result'[1]))]_vars

\* a left join of three tables written: the row of the first table took the
\* second table's row at its own coordinates, distance 0, then the third
\* table's row to the east, and its field holds that last, positive distance
C27_Witness ==
  /\ pc = "done" /\ match_mode = "LEFT" /\ Len(data_frames) = 3
  /\ RowCount(output) = 1
  /\ origin[1] = { <<0, 0>>, <<1, 0>>, <<2, 0>> }
  /\ <<InputLat(<<1, 0>>), InputLng(<<1, 0>>)>> = <<InputLat(<<0, 0>>), InputLng(<<0, 0>>)>>
  /\ <<InputLat(<<2, 0>>), InputLng(<<2, 0>>)>> # <<InputLat(<<0, 0>>), InputLng(<<0, 0>>)>>
  /\ DistanceField(output, 1)
       = FloatToString(haversine(InputLat(<<0, 0>>), InputLng(<<0, 0>>),
                                 InputLat(<<2, 0>>), InputLng(<<2, 0>>)))
  /\ DistanceField(output, 1) # "0"

\* the column indices DataFrame df has bound: its roles, its output columns
\* and its compare columns
BoundIndices(df) ==
  { df[role][1] : role \in { role \in TextRoles : df[role] # None } }
  \cup { df.output_cols[i] : i \in 1..Len(df.output_cols) }
  \cup { df.compare_cols[i] : i \in 1..Len(df.compare_cols) }

\* C28: after a successful `set <i> lat|lng <col>`, which moves a text column
\* to the coordinates, every role index, output column index and compare
\* column index the table had bound is smaller than the number of text
\* columns and designates the text column it designated before.
C28_BindingsSurviveSetCoord ==
  [][\A t \in 1..Len(data_frames) :
       (/\ pc = "idle" /\ cmd_result' = "Ok" /\ Len(data_frames') = Len(data_frames)
        /\ Len(data_frames'[t].data) < Len(data_frames[t].data)) =>
         \A index \in BoundIndices(data_frames[t]) :
           /\ index < Len(data_frames'[t].data)
           /\ data_frames'[t].headers[index + 1] = data_frames[t].headers[index + 1]
           /\ data_frames'[t].data[index + 1] = data_frames[t].data[index + 1]]_vars

\* the dissimilarity of two compare values
Dissimilarity(s, t) == 100 - token_sort_ratio(s, t)

\* the least element of a non-empty set of numbers
Least(S) == CHOOSE m \in S : \A d \in S : m <= d

\* the compare values of the source row and of candidate i
SourceValues == compare_row(output, row)
CandidateValues(i) == compare_row(Candidates, i)

\* the score of candidate i: over its compare values, the sum of the squared
\* least dissimilarity to a compare value of the source row, a value adding
\* nothing when the source row has none
Score(i) ==
  SumSeq([j \in 1..Len(CandidateValues(i)) |->
            IF SourceValues = <<>> THEN 0
            ELSE Least({ Dissimilarity(SourceValues[k], CandidateValues(i)[j]) :
                         k \in 1..Len(SourceValues) }) ^ 2])

\* the first candidate in table order among the exact candidates of least
\* score
BestExact ==
  First({ i \in ExactSet : \A j \in ExactSet : Score(i) <= Score(j) })

\* C23: given several eligible candidates at the source's coordinates,
\* find_single_match returns, with distance 0, the one of smallest score,
\* the first in table order among equal scores, the score of a candidate
\* being the sum over its compare values of the squared least dissimilarity
\* (100 less the token-sort ratio) to the source row's compare values.
C23_TieBreakBySquaredDissimilarity ==
  [][(pc = "probe" /\ SourceResolved /\ Cardinality(ExactSet) > 1)
      => result' = <<BestExact, F(0)>>]_vars

\* the call returned the second candidate: its two values are each half
\* dissimilar to the source's, score 5000, the first candidate's are one
\* equal and one wholly dissimilar, score 10000
C23_Witness ==
  /\ pc = "probed"
  /\ Len(SourceValues) = 2
  /\ Len(CandidateValues(0)) = 2
  /\ Score(0) = 10000
  /\ Score(1) = 5000
  /\ result = <<1, F(0)>>

\* C30: within find_matches the source row of the tie-break is a row of the
\* output table, which has no compare columns; so whenever an output row has
\* several eligible candidates at its coordinates in the current input
\* table, the one merged is the one of lowest row index, whatever the text
\* of the compare columns of any table.
C30_TieBreakIgnoresText ==
  /\ [](pc \in {"match", "append", "write", "done"} => output.compare_cols = <<>>)
  /\ [][(pc = "match" /\ SourceResolved /\ Cardinality(ExactSet) > 1) =>
          /\ compare_row(output, row) = <<>>
          /\ result' = <<First(ExactSet), F(0)>>
          /\ origin'[row + 1] = origin[row + 1] \cup { <<df_index, First(ExactSet)>> }]_vars

\* a finished merge of two tables whose compare columns are their two text
\* columns: the second table's two rows lie at the first row's coordinates,
\* its second row carries the first table's text and its first row carries
\* other text in both columns, and the first row was the one merged
C30_Witness ==
  /\ pc = "done" /\ Len(data_frames) = 2
  /\ data_frames[1].compare_cols = <<0, 1>> /\ data_frames[2].compare_cols = <<0, 1>>
  /\ data_frames[1].shape[2] = 1 /\ data_frames[2].shape[2] = 2
  /\ compare_row(data_frames[2], 1) = compare_row(data_frames[1], 0)
  /\ \A j \in 1..2 : \A k \in 1..2 :
       token_sort_ratio(compare_row(data_frames[1], 0)[k],
                        compare_row(data_frames[2], 0)[j]) = 0
  /\ <<0, 0>> \in origin[1] /\ <<1, 0>> \in origin[1] /\ <<1, 1>> \notin origin[1]

-----------------------------------------------------------------------------
(* The passes of the merge *)

\* the rows of table k (0-based) merged into or appended as output row x
\* (1-based)
RowsOf(k, x) == { p \in origin[x] : p[1] = k }

\* the merge has left the pass of the first table
FirstPassOver ==
  \/ pc \in { "match", "append" } /\ df_index >= 1
  \/ pc \in { "write", "done" }

\* C31: in the pass of table k the row used as a match source, and every row
\* still to be used, holds rows of earlier tables only: it was made in an
\* earlier pass and is never a row appended in this pass, so the output
\* does not grow while rows are matched, no output row holds two rows of one
\* table, and the first table is never matched: its rows are appended one for
\* one in their order, and are the first output rows ever after.
C31_PassSourcesPredateThePass ==
  /\ [](pc = "match" =>
          /\ df_index >= 1
          /\ row < RowCount(output)
          /\ \A x \in (row + 1)..RowCount(output) : \A p \in origin[x] : p[1] < df_index)
  /\ [](pc \in { "match", "append", "write", "done" } =>
          \A x \in 1..Len(origin) : \A k \in 0..(Len(data_frames) - 1) :
            Cardinality(RowsOf(k, x)) <= 1)
  /\ [](FirstPassOver =>
          /\ Len(origin) >= data_frames[1].shape[2]
          /\ \A x \in 1..Len(origin) :
               RowsOf(0, x) = IF x <= data_frames[1].shape[2] THEN { <<0, x - 1>> } ELSE {})
  /\ [][pc = "match" => RowCount(output') = RowCount(output)]_vars
  /\ [][pc = "append" => ~(pc' = "match" /\ df_index' = df_index)]_vars
  /\ [][(pc = "append" /\ df_index = 0) =>
          /\ RowCount(output) = row
          /\ RowCount(output') = row + 1
          /\ origin' = Append(origin, { <<0, row>> })
          /\ lat(output')[row + 1] = lat(data_frames[1])[row + 1]
          /\ lng(output')[row + 1] = lng(data_frames[1])[row + 1]
          /\ \A c \in 1..Len(output.data) :
               output'.data[c][row + 1] = IF InSlice(c, 1) THEN SliceValue(c, 1, row) ELSE ""]_vars

\* a finished outer merge of two tables, not exclusive: the second table's
\* first row lies at the coordinates of the first table's first row, was
\* merged into that output row and appended as well, and the appended row,
\* at its own coordinates, holds nothing but itself
C31_Witness ==
  /\ pc = "done" /\ match_mode = "OUTER" /\ ~exclusive
  /\ Len(data_frames) = 2
  /\ data_frames[1].shape[2] = 1 /\ data_frames[2].shape[2] >= 1
  /\ InputLat(<<0, 0>>) = InputLat(<<1, 0>>) /\ ~is_nan(InputLat(<<0, 0>>))
  /\ InputLng(<<0, 0>>) = InputLng(<<1, 0>>) /\ ~is_nan(InputLng(<<0, 0>>))
  /\ Len(origin) >= 2
  /\ origin[1] = { <<0, 0>>, <<1, 0>> }
  /\ origin[2] = { <<1, 0>> }

-----------------------------------------------------------------------------
(* Termination of fetch *)

\* a step of a running fetch: a task leaves the queue only with a permit, a
\* task with a permit goes on to send its request, a task that ended stays
\* ended
QueueLeftWithPermit ==
  pc \in { "tick", "join" } =>
    /\ census'.waiting < census.waiting =>
         census'.granted = census.granted + census.waiting - census'.waiting
    /\ census'.granted < census.granted =>
         census'.sending = census.sending + census.granted - census'.granted
    /\ census'.ended >= census.ended

\* C32: while the clock keeps ticking and the requests sent return, a fetch
\* that has begun on a DataFrame gets past join_all, with more rows than the
\* 30 permits as well, and a queue on the semaphore empties; by then every
\* row has its task and every task has ended, none is left queued and the
\* permits are free again; on the way a task leaves the queue only with a
\* permit, a task with a permit goes on to send its request, and a task
\* that ended stays ended.
C32_FetchTerminates ==
  /\ (pc \in { "tick", "join" }) ~> (pc = "store")
  /\ (census.waiting > 0) ~> (census.waiting = 0)
  /\ [](pc = "store" =>
          /\ census.ended = Fetching.shape[2]
          /\ Spawned(census) = census.ended
          /\ permits = SemaphorePermits)
  /\ [][QueueLeftWithPermit]_vars

\* every row of a DataFrame of more rows than the semaphore has permits is
\* submitted and join_all is awaited: requests have ended, a task that was
\* queued on the semaphore has been handed a permit and another still queues
C32_Witness ==
  /\ pc = "join"
  /\ Fetching.shape[2] > SemaphorePermits
  /\ census.granted > 0
  /\ census.waiting > 0
  /\ census.ended > 0


====
